---- MODULE Spec2Model ----
(***************************************************************************)
(* Model of the katana HTTP server driver (server::handle_connection and   *)
(* the accept handler of server::run).                                     *)
(*                                                                         *)
(* The connection part follows one connection.  handle_connection is a     *)
(* reactor callback; its position between two system calls is the         *)
(* variable pc, so that the peer and the kernel (bytes arriving, the send  *)
(* buffer draining, FIN, RST) interleave with it exactly where they can    *)
(* in the program: at the read and write calls.                            *)
(***************************************************************************)
EXTENDS Integers, Sequences, FiniteSets, TLC

\* ------------------------------------------------------------------------
\* Bounds of the model
\* ------------------------------------------------------------------------
MaxReq == 2     \* requests the client starts on the connection
MaxRespLen == 2 \* bytes of the longest serialized response
SndCap == 1     \* bytes the kernel send buffer of the socket holds

FdLimit == 4         \* descriptors the process may hold (RLIMIT_NOFILE)
MaxBacklog == 2      \* connections the listener queues
MaxAcceptErrors == 2 \* accept4 failures counted before the model stops accepting
MaxConns == 4        \* connections whose states the ownership model follows
MaxSignals == 3      \* signals delivered to the process
MaxRoutes == 2       \* entries of the route table
MaxUriLen == 4       \* characters of the request URI
MaxChain == 3        \* middleware of a route's chain
HashBits == 4        \* bits of hash_string the model keeps
MaxOps == 3          \* operations of the document the route table is generated from

\* Tag of the bytes of the 400 problem-details response.
BadRequestStatus == 400

\* Requests the client uses: HTTP version and Connection header ("none":
\* the request has no Connection header).
Heads == {<<"1.1", "none">>, <<"1.1", "close">>, <<"1.0", "none">>}
\* Connection header a handler may set on its response ("none": not set).
HandlerConn == {"none", "close", "keep-alive"}
\* The requests and handlers of the runs that follow a response to its end:
\* with and without `Connection: close`, handlers that leave the header alone.
LiveHeads == {<<"1.1", "none">>, <<"1.1", "close">>}
LiveHandlerConn == {"none"}

\* Requests whose Connection header is written in several letter cases.
CaseHeads == {<<"1.1", "close">>, <<"1.1", "Close">>, <<"1.1", "CLOSE">>, <<"1.1", "keep-alive">>}

close_reasons == {"read_error", "read_eof", "parse_error", "write_error", "close_header"}

\* ------------------------------------------------------------------------
\* Bytes on the wire.  A request is a head byte (request line and headers,
\* carrying the version and the Connection header) followed by an end byte
\* (the blank line that completes it).  "X" is a byte no request contains.
\* ------------------------------------------------------------------------
HeadByte(id, ver, conn) == [k |-> "H", id |-> id, ver |-> ver, conn |-> conn]
EndByte(id) == [k |-> "E", id |-> id, ver |-> "", conn |-> ""]
BadByte == [k |-> "X", id |-> 0, ver |-> "", conn |-> ""]

NoRequest == [id |-> 0, ver |-> "", conn |-> "", hconn |-> "", rconn |-> "", close |-> FALSE]

VARIABLES
    pc,             \* position of handle_connection
    registered,     \* state.watch holds the reactor registration
    interest,       \* interest mask of the registration
    read_buffer,    \* state.read_buffer (readable span)
    write_buffer,   \* state.write_buffer (readable span), bytes tagged by response
    close_requested,\* state.close_requested
    parser_state,   \* state.http_parser: "fresh", "partial", "complete"
    arena_dirty,    \* state.arena holds allocations since its last reset
    cur,            \* the request dispatched last and its response
    close_counters, \* close_counters()
    ev,             \* the reactor has a readiness event pending for the fd
    rcvq,           \* kernel receive queue of the socket
    snd_free,       \* free space of the kernel send buffer
    wire,           \* responses written to the socket so far, by tag, in byte order
    peer,           \* "open", "fin" (peer closed its side), "reset"
    client,         \* what the client has sent: next request id, mid-request
    last_io,        \* result of the last read or write of the callback
    done_path,      \* where the last response was completed: "inline", "flush"
    inputs,         \* the requests the client draws from, the headers handlers set
    apc,            \* position of accept_handler on this worker thread
    lev,            \* the reactor has a readiness event pending for the listener
    listener_registered, \* the listener's registration is held
    backlog,        \* connections queued on the listener
    conns,          \* connections of this thread: accepted, registered, open
    others,         \* descriptors the other threads of the process hold
    fd_,            \* reserve_fd_guard::fd_ of this thread
    reserve_init,   \* the thread-local reserve_fd_guard has been constructed
    conn_fd,        \* conn_fd of handle_emfile
    batch,          \* connections accepted and registered by this invocation
    accept_counters,\* accept_counters()
    last_accept,    \* result of the last accept4 of this invocation's loop
    cycle,          \* the recovery cycle: steps done, and how it started
    origin,         \* per connection: what accepted it, "run" or "accept_connection"
    alive,          \* per connection: its connection_state exists
    watch,          \* per connection: state.watch holds the registration
    owners,         \* per connection: the owning references to its state
    running,        \* the connection whose callback runs on the reactor thread (0: none)
    rpc,            \* position of server::run
    config,         \* reuseport_, on_start_callback_ and on_stop_callback_ are set
    shutdown_callback, \* shutdown_manager holds the callback run() gave it
    shutdown_requested,\* shutdown_manager's flag
    pool,           \* reactor_pool: "created", "stop_requested", "running", "stopping", "stopped"
    signals,        \* the signals delivered to the process, in order
    stop_log,       \* what the shutdown callback has called, in order
    ret,            \* what run() returned (-1: has not returned)
    listener,       \* the listener of run(): the object, its socket, its watch
    routes,         \* the route table the router was built on, in declaration order
    route_req,      \* the request dispatched: http_method and uri
    route_resp,     \* what dispatch and dispatch_or_problem returned for it
    chain,          \* the middleware chain of the selected route: what each middleware does
    handler_result, \* what the route's handler returns when invoked
    chain_pc,       \* "idle", "down" (towards the handler), "up" (returning), "done"
    depth,          \* the middleware running (Len(chain) + 1: the handler)
    trace,          \* the phases run, in order
    chain_result,   \* the result<response> being returned
    doc,            \* the operations of the OpenAPI document the router is generated from
    gen_req,        \* the request given to the generated routers
    fast_out,       \* what fast_router returned for it
    fallback_out,   \* what the router of make_router returned for it
    scored,         \* the two path patterns whose priorities are compared
    scores,         \* their priority scores (<<>>: not computed)
    table_out,      \* the arrays generate_router_table defined (<<>>: not generated)
    bindings_out    \* the arrays generate_router_bindings referenced (<<>>: not generated)

connVars == <<pc, registered, interest, read_buffer, write_buffer, close_requested,
              parser_state, arena_dirty, cur, close_counters, last_io, done_path>>
kernVars == <<ev, rcvq, snd_free, wire, peer, client, inputs>>
acceptVars == <<apc, lev, listener_registered, backlog, conns, others, fd_, reserve_init, conn_fd,
                batch, accept_counters, last_accept, cycle>>
lifeVars == <<origin, alive, watch, owners, running>>
shutVars == <<rpc, config, shutdown_callback, shutdown_requested, pool, signals, stop_log, ret,
              listener>>
routeVars == <<routes, route_req, route_resp>>
chainVars == <<chain, handler_result, chain_pc, depth, trace, chain_result>>
genVars == <<doc, gen_req, fast_out, fallback_out>>
scoreVars == <<scored, scores>>
emitVars == <<table_out, bindings_out>>
toolVars == <<chainVars, genVars, scoreVars, emitVars>>
processVars == <<lifeVars, shutVars, routeVars, toolVars>>
vars == <<connVars, kernVars, acceptVars, processVars>>

Min(a, b) == IF a < b THEN a ELSE b
MinOf(S) == CHOOSE x \in S : \A y \in S : x <= y

\* ------------------------------------------------------------------------
\* Collaborators whose code is outside the driver
\* ------------------------------------------------------------------------

\* http_parser.parse over the readable span: fails on a byte no request
\* contains, completes at the first end byte, otherwise wants more bytes.
parse(span) ==
    LET ends == {i \in DOMAIN span : span[i].k = "E"}
        bads == {i \in DOMAIN span : span[i].k = "X"}
    IN  IF bads # {} /\ (ends = {} \/ MinOf(bads) < MinOf(ends))
        THEN [ok |-> FALSE, complete |-> FALSE, bytes_parsed |-> 0]
        ELSE IF ends # {}
        THEN [ok |-> TRUE, complete |-> TRUE, bytes_parsed |-> MinOf(ends)]
        ELSE [ok |-> TRUE, complete |-> FALSE, bytes_parsed |-> 0]

\* response::serialize_into: appends the len bytes of the response.
serialize_into(buf, tag, len) == buf \o [i \in 1..len |-> tag]

\* Readiness of the socket for an interest mask.
ReadyFor(mask) ==
    IF mask = "readable" THEN rcvq # <<>> \/ peer # "open"
    ELSE snd_free > 0 \/ peer = "reset"

\* Outcomes of socket.read on the socket in its present state.
ReadResults ==
    IF peer = "reset" THEN {"error"}
    ELSE IF rcvq # <<>> THEN {"data"}
    ELSE IF peer = "fin" THEN {"eof"}
    ELSE {"eagain", "empty"}

\* Outcomes of socket.write on the socket in its present state.
WriteResults ==
    IF peer = "reset" THEN {"error"}
    ELSE IF snd_free = 0 THEN {"eagain", "zero"}
    ELSE {"ok"}

\* ------------------------------------------------------------------------
\* Building blocks of handle_connection
\* ------------------------------------------------------------------------

\* A bug: modify leaves the interest mask as it was.
Park_KeepsMask(mask) ==
    /\ pc' = "parked"
    /\ ev' = (ev \/ ReadyFor(interest))
    /\ UNCHANGED <<interest, registered>>

\* state.watch->modify(mask); return;
Park(mask) ==
    /\ pc' = "parked"
    /\ interest' = mask
    /\ ev' = (ev \/ ReadyFor(mask))
    /\ UNCHANGED registered

\* if (state.watch) state.watch->modify(mask); return;
ParkIfWatch(mask) ==
    IF registered THEN Park(mask)
    ELSE pc' = "parked" /\ UNCHANGED <<interest, ev, registered>>

\* A bug: the callback goes on with the loop after state.watch.reset().
ResetWatch_GoesOn ==
    /\ pc' = "loop"
    /\ registered' = FALSE
    /\ ev' = FALSE
    /\ UNCHANGED interest

\* state.watch.reset(); return;
ResetWatch ==
    /\ pc' = "released"
    /\ registered' = FALSE
    /\ ev' = FALSE
    /\ UNCHANGED interest

\* ++close_counters().<reason>
Count(reason) == close_counters' = [close_counters EXCEPT ![reason] = @ + 1]


\* if (!resp.headers.get("Connection")) resp.set_header("Connection", ...)
response_connection(hconn, close_connection) ==
    IF hconn = "none"
    THEN (IF close_connection THEN "close" ELSE "keep-alive")
    ELSE hconn

\* A bug: the write that would block waits for readability.
WriteWouldBlock_WaitsToRead == Park("readable")

\* socket.write returned EAGAIN/EWOULDBLOCK, or 0 with bytes left:
\* state.watch->modify(event_type::writable); return;
WriteWouldBlock == Park("writable")

\* A bug: a request never asks to close.
close_connection_never(conn) == FALSE

\* connection_header && (*connection_header == "close" || ... == "Close")
close_connection_of(conn) == conn = "close" \/ conn = "Close"

\* state.arena.reset(); state.http_parser.reset(&state.arena);
ResetForNextRequest ==
    /\ close_requested' = FALSE
    /\ arena_dirty' = FALSE
    /\ parser_state' = "fresh"

\* The stream the client receives, kept as the tags of its runs of bytes:
\* <<1, 2>> is all bytes of response 1 received, then bytes of response 2.
RECURSIVE Received(_, _)
Received(w, bytes) ==
    IF bytes = <<>> THEN w
    ELSE Received(IF w # <<>> /\ w[Len(w)] = Head(bytes) THEN w ELSE Append(w, Head(bytes)),
                  Tail(bytes))

\* socket.write(data) accepted n bytes; write_buffer.consume(n)
Written(n) ==
    /\ wire' = Received(wire, SubSeq(write_buffer, 1, n))
    /\ snd_free' = snd_free - n
    /\ write_buffer' = SubSeq(write_buffer, n + 1, Len(write_buffer))

\* ------------------------------------------------------------------------
\* handle_connection, one step per system call
\* ------------------------------------------------------------------------

\* A bug: the callback has no flush block and goes straight to the loop.
Invoke_NoFlush ==
    /\ pc = "parked" /\ registered /\ ev
    /\ ev' = FALSE
    /\ pc' = "loop"
    /\ last_io' = <<"none", "none">>
    /\ UNCHANGED <<registered, interest, read_buffer, write_buffer, close_requested,
                   parser_state, arena_dirty, cur, close_counters, done_path,
                   rcvq, snd_free, wire, peer, client, inputs, acceptVars, processVars>>

\* The reactor delivers the pending event: handle_connection starts.
Invoke ==
    /\ pc = "parked" /\ registered /\ ev
    /\ ev' = FALSE
    /\ pc' = IF write_buffer # <<>> THEN "flush" ELSE "loop"
    /\ last_io' = <<"none", "none">>
    /\ UNCHANGED <<registered, interest, read_buffer, write_buffer, close_requested,
                   parser_state, arena_dirty, cur, close_counters, done_path,
                   rcvq, snd_free, wire, peer, client, inputs, acceptVars, processVars>>

\* A bug: the flush block forgets to reset the arena and the parser.
FlushComplete_NoReset ==
    /\ done_path' = "flush"
    /\ IF close_requested
       THEN /\ Count("close_header")
            /\ ResetWatch
            /\ UNCHANGED <<close_requested, arena_dirty, parser_state>>
       ELSE /\ UNCHANGED <<close_requested, arena_dirty, parser_state, close_counters>>
            /\ IF read_buffer = <<>>
               THEN Park("readable")
               ELSE pc' = "loop" /\ UNCHANGED <<registered, interest, ev>>

\* A bug: the flush block returns to the reactor whatever the read buffer holds.
FlushComplete_AlwaysPark ==
    /\ done_path' = "flush"
    /\ IF close_requested
       THEN /\ Count("close_header")
            /\ ResetWatch
            /\ UNCHANGED <<close_requested, arena_dirty, parser_state>>
       ELSE /\ ResetForNextRequest
            /\ UNCHANGED close_counters
            /\ Park("readable")

\* A bug: the flush block keeps the connection whatever the request asked.
FlushComplete_IgnoresClose ==
    /\ done_path' = "flush"
    /\ ResetForNextRequest
    /\ UNCHANGED close_counters
    /\ IF read_buffer = <<>>
       THEN Park("readable")
       ELSE pc' = "loop" /\ UNCHANGED <<registered, interest, ev>>

\* After the flush loop drained the buffer: close, or reset for the next request.
FlushComplete ==
    /\ done_path' = "flush"
    /\ IF close_requested
       THEN /\ Count("close_header")
            /\ ResetWatch
            /\ UNCHANGED <<close_requested, arena_dirty, parser_state>>
       ELSE /\ ResetForNextRequest
            /\ UNCHANGED close_counters
            /\ IF read_buffer = <<>>
               THEN Park("readable")
               ELSE pc' = "loop" /\ UNCHANGED <<registered, interest, ev>>

\* The flush block at the top: one socket.write of the pending response.
FlushStep ==
    /\ pc = "flush"
    /\ \E r \in WriteResults :
         /\ last_io' = <<"write", r>>
         /\ \/ /\ r \in {"eagain", "zero"}
               /\ WriteWouldBlock
               /\ UNCHANGED <<write_buffer, wire, snd_free, close_requested, arena_dirty,
                              parser_state, close_counters, done_path>>
            \/ /\ r = "error"
               /\ ResetWatch
               /\ UNCHANGED <<write_buffer, wire, snd_free, close_requested, arena_dirty,
                              parser_state, close_counters, done_path>>
            \/ /\ r = "ok"
               /\ Written(Min(Len(write_buffer), snd_free))
               /\ IF write_buffer' # <<>>
                  THEN UNCHANGED <<pc, registered, interest, ev, close_requested,
                                   arena_dirty, parser_state, close_counters, done_path>>
                  ELSE FlushComplete
    /\ UNCHANGED <<read_buffer, cur, rcvq, peer, client, inputs, acceptVars, processVars>>

\* Top of the while(true) loop: read when the read buffer is empty.
LoopStep ==
    /\ pc = "loop"
    /\ IF read_buffer # <<>>
       THEN /\ pc' = "parse"
            /\ UNCHANGED <<registered, interest, ev, read_buffer, rcvq, close_counters, last_io>>
       ELSE \E r \in ReadResults :
              /\ last_io' = <<"read", r>>
              /\ \/ /\ r \in {"eagain", "empty"}
                    /\ ParkIfWatch("readable")
                    /\ UNCHANGED <<read_buffer, rcvq, close_counters>>
                 \/ /\ r = "eof"
                    /\ Count("read_eof")
                    /\ ResetWatch
                    /\ UNCHANGED <<read_buffer, rcvq>>
                 \/ /\ r = "error"
                    /\ Count("read_error")
                    /\ ResetWatch
                    /\ UNCHANGED <<read_buffer, rcvq>>
                 \/ /\ r = "data"
                    /\ read_buffer' = rcvq
                    /\ rcvq' = <<>>
                    /\ pc' = "parse"
                    /\ UNCHANGED <<registered, interest, ev, close_counters>>
    /\ UNCHANGED <<write_buffer, close_requested, parser_state, arena_dirty, cur, done_path,
                   snd_free, wire, peer, client, inputs, acceptVars, processVars>>

\* dispatch_or_problem, the Connection header and serialize_into for the
\* request at the front of the read buffer.
Dispatch(p) ==
    LET req == read_buffer[1]
        close_connection == close_connection_of(req.conn)
    IN  /\ read_buffer' = SubSeq(read_buffer, p.bytes_parsed + 1, Len(read_buffer))
        /\ \E hconn \in inputs.hconn, len \in 1..MaxRespLen :
             /\ cur' = [id |-> req.id, ver |-> req.ver, conn |-> req.conn, hconn |-> hconn,
                        rconn |-> response_connection(hconn, close_connection),
                        close |-> close_connection]
             /\ write_buffer' = serialize_into(write_buffer, req.id, len)
        /\ close_requested' = close_connection
        /\ parser_state' = "complete"
        /\ arena_dirty' = TRUE
        /\ pc' = "write"
        /\ UNCHANGED <<registered, interest, ev, close_counters>>

\* The parse error path: a 400 response is serialized and the watch is reset.
ParseError ==
    /\ write_buffer' = serialize_into(write_buffer, BadRequestStatus, MaxRespLen)
    /\ Count("parse_error")
    /\ ResetWatch
    /\ parser_state' = "error"
    /\ arena_dirty' = TRUE
    /\ UNCHANGED <<read_buffer, cur, close_requested>>

\* http_parser.parse(readable) and what follows up to the next system call.
ParseStep ==
    /\ pc = "parse"
    /\ LET p == parse(read_buffer)
       IN  IF ~p.ok THEN ParseError
           ELSE IF ~p.complete
           THEN /\ pc' = "read2"
                /\ parser_state' = "partial"
                /\ arena_dirty' = TRUE
                /\ UNCHANGED <<registered, interest, ev, read_buffer, write_buffer, cur,
                               close_requested, close_counters>>
           ELSE Dispatch(p)
    /\ UNCHANGED <<last_io, done_path, rcvq, snd_free, wire, peer, client, inputs, acceptVars, processVars>>

\* A bug: the read after an incomplete parse takes a peer close for a read
\* that would block.
Read2Step_PeerCloseParks ==
    /\ pc = "read2"
    /\ \E r \in ReadResults :
         /\ last_io' = <<"read", r>>
         /\ \/ /\ r \in {"eagain", "empty", "eof"}
               /\ ParkIfWatch("readable")
               /\ UNCHANGED <<read_buffer, rcvq, close_counters>>
            \/ /\ r = "error"
               /\ Count("read_error")
               /\ ResetWatch
               /\ UNCHANGED <<read_buffer, rcvq>>
            \/ /\ r = "data"
               /\ read_buffer' = read_buffer \o rcvq
               /\ rcvq' = <<>>
               /\ pc' = "loop"
               /\ UNCHANGED <<registered, interest, ev, close_counters>>
    /\ UNCHANGED <<write_buffer, close_requested, parser_state, arena_dirty, cur, done_path,
                   snd_free, wire, peer, client, inputs, acceptVars, processVars>>

\* The read after an incomplete parse.
Read2Step ==
    /\ pc = "read2"
    /\ \E r \in ReadResults :
         /\ last_io' = <<"read", r>>
         /\ \/ /\ r \in {"eagain", "empty"}
               /\ ParkIfWatch("readable")
               /\ UNCHANGED <<read_buffer, rcvq, close_counters>>
            \/ /\ r \in {"eof", "error"}
               /\ Count("read_error")
               /\ ResetWatch
               /\ UNCHANGED <<read_buffer, rcvq>>
            \/ /\ r = "data"
               /\ read_buffer' = read_buffer \o rcvq
               /\ rcvq' = <<>>
               /\ pc' = "loop"
               /\ UNCHANGED <<registered, interest, ev, close_counters>>
    /\ UNCHANGED <<write_buffer, close_requested, parser_state, arena_dirty, cur, done_path,
                   snd_free, wire, peer, client, inputs, acceptVars, processVars>>

\* After the write loop drained the buffer: close, or reset and continue.
WriteComplete ==
    /\ done_path' = "inline"
    /\ IF cur.close
       THEN /\ Count("close_header")
            /\ ResetWatch
            /\ UNCHANGED <<close_requested, arena_dirty, parser_state>>
       ELSE /\ ResetForNextRequest
            /\ UNCHANGED close_counters
            /\ IF read_buffer = <<>>
               THEN ParkIfWatch("readable")
               ELSE pc' = "loop" /\ UNCHANGED <<registered, interest, ev>>

\* The write loop after serialize_into: one socket.write of the response.
WriteStep ==
    /\ pc = "write"
    /\ \E r \in WriteResults :
         /\ last_io' = <<"write", r>>
         /\ \/ /\ r \in {"eagain", "zero"}
               /\ WriteWouldBlock
               /\ UNCHANGED <<write_buffer, wire, snd_free, close_requested, arena_dirty,
                              parser_state, close_counters, done_path>>
            \/ /\ r = "error"
               /\ Count("write_error")
               /\ ResetWatch
               /\ UNCHANGED <<write_buffer, wire, snd_free, close_requested, arena_dirty,
                              parser_state, done_path>>
            \/ /\ r = "ok"
               /\ Written(Min(Len(write_buffer), snd_free))
               /\ IF write_buffer' # <<>>
                  THEN UNCHANGED <<pc, registered, interest, ev, close_requested,
                                   arena_dirty, parser_state, close_counters, done_path>>
                  ELSE WriteComplete
    /\ UNCHANGED <<read_buffer, cur, rcvq, peer, client, inputs, acceptVars, processVars>>

Handler == FlushStep \/ LoopStep \/ ParseStep \/ Read2Step \/ WriteStep

\* ------------------------------------------------------------------------
\* The client and the kernel
\* ------------------------------------------------------------------------

\* Bytes arrive on the socket: an edge for a registration that waits to read.
Arrive(b) ==
    /\ rcvq' = Append(rcvq, b)
    /\ ev' = (ev \/ interest = "readable")

ClientSendHead ==
    /\ registered /\ peer = "open"
    /\ ~client.mid /\ client.next <= MaxReq
    /\ \E h \in inputs.heads : Arrive(HeadByte(client.next, h[1], h[2]))
    /\ client' = [client EXCEPT !.mid = TRUE]
    /\ UNCHANGED <<connVars, snd_free, wire, peer, inputs, acceptVars, processVars>>

ClientSendEnd ==
    /\ registered /\ peer = "open"
    /\ client.mid
    /\ Arrive(EndByte(client.next))
    /\ client' = [next |-> client.next + 1, mid |-> FALSE, bad |-> client.bad]
    /\ UNCHANGED <<connVars, snd_free, wire, peer, inputs, acceptVars, processVars>>

ClientSendBad ==
    /\ registered /\ peer = "open"
    /\ ~client.bad
    /\ Arrive(BadByte)
    /\ client' = [client EXCEPT !.bad = TRUE]
    /\ UNCHANGED <<connVars, snd_free, wire, peer, inputs, acceptVars, processVars>>

\* The peer closes its side (FIN): readable at end of file.
PeerClose ==
    /\ registered /\ peer = "open"
    /\ peer' = "fin"
    /\ ev' = (ev \/ interest = "readable")
    /\ UNCHANGED <<connVars, rcvq, snd_free, wire, client, inputs, acceptVars, processVars>>

\* The connection is reset: reported whatever the interest mask.
PeerReset ==
    /\ registered /\ peer # "reset"
    /\ peer' = "reset"
    /\ ev' = TRUE
    /\ UNCHANGED <<connVars, rcvq, snd_free, wire, client, inputs, acceptVars, processVars>>

\* The peer takes bytes from the send buffer: an edge for a registration
\* that waits to write.
PeerDrain ==
    /\ registered /\ peer # "reset"
    /\ snd_free < SndCap
    /\ \E n \in (snd_free + 1)..SndCap : snd_free' = n
    /\ ev' = (ev \/ interest = "writable")
    /\ UNCHANGED <<connVars, rcvq, wire, peer, client, inputs, acceptVars, processVars>>

InitConn ==
    /\ pc = "parked"
    /\ registered = TRUE
    /\ interest = "readable"
    /\ read_buffer = <<>>
    /\ write_buffer = <<>>
    /\ close_requested = FALSE
    /\ parser_state = "fresh"
    /\ arena_dirty = FALSE
    /\ cur = NoRequest
    /\ close_counters = [r \in close_reasons |-> 0]
    /\ ev = FALSE
    /\ rcvq = <<>>
    /\ snd_free = SndCap
    /\ wire = <<>>
    /\ peer = "open"
    /\ client = [next |-> 1, mid |-> FALSE, bad |-> FALSE]
    /\ last_io = <<"none", "none">>
    /\ done_path = "none"

AllInputs == [heads |-> Heads, hconn |-> HandlerConn]
LiveInputs == [heads |-> LiveHeads, hconn |-> LiveHandlerConn]
CaseInputs == [heads |-> CaseHeads, hconn |-> {"none"}]

\* ------------------------------------------------------------------------
\* The accept handler of server::run and reserve_fd_guard
\* ------------------------------------------------------------------------
\* Descriptors are counted, not numbered: fd_ and conn_fd are -1 or 0, and 0
\* stands for any valid descriptor.
accept_errors == {"emfile", "enfile", "enomem", "enobufs", "other"}
\* accept4 failures that do not come from the descriptor table or the backlog.
InjectedErrors == {"enfile", "enomem", "enobufs", "econnaborted", "eintr"}

Held(fd) == IF fd >= 0 THEN 1 ELSE 0
\* Descriptors this thread holds besides the listener: its reserve, its
\* connections and the connection handle_emfile accepted.
ThreadFds == Held(fd_) + Held(conn_fd) + conns
\* Descriptors the process holds.
OpenFds == 1 + ThreadFds + others
ErrorTotal ==
    accept_counters.emfile + accept_counters.enfile + accept_counters.enomem
    + accept_counters.enobufs + accept_counters.other

NoCycle == [steps |-> <<>>, pending |-> FALSE, held |-> 0, done |-> FALSE]

\* Outcomes of accept4 on the listener: the descriptor is allocated before
\* the queue is looked at, so a full table answers EMFILE whatever the queue.
AcceptResults ==
    IF OpenFds >= FdLimit THEN {"emfile"}
    ELSE IF backlog = 0 THEN {"eagain"}
    ELSE {"ok"}

\* A bug: the ENFILE case has no break and falls into the ENOMEM case.
count_accept_error_falls_through(err) ==
    accept_counters' =
        CASE err = "emfile" -> [accept_counters EXCEPT !.emfile = @ + 1]
          [] err = "enfile" -> [accept_counters EXCEPT !.enfile = @ + 1, !.enomem = @ + 1]
          [] err = "enomem" -> [accept_counters EXCEPT !.enomem = @ + 1]
          [] err = "enobufs" -> [accept_counters EXCEPT !.enobufs = @ + 1]
          [] OTHER -> [accept_counters EXCEPT !.other = @ + 1]

\* count_accept_error(err): switch (err)
count_accept_error(err) ==
    accept_counters' =
        CASE err = "emfile" -> [accept_counters EXCEPT !.emfile = @ + 1]
          [] err = "enfile" -> [accept_counters EXCEPT !.enfile = @ + 1]
          [] err = "enomem" -> [accept_counters EXCEPT !.enomem = @ + 1]
          [] err = "enobufs" -> [accept_counters EXCEPT !.enobufs = @ + 1]
          [] OTHER -> [accept_counters EXCEPT !.other = @ + 1]

\* reserve_fd_guard::reopen: fd_ = ::open("/dev/null", ...), -1 when it fails.
\* (Called with no reserve held.)
reopen == fd_' = IF OpenFds >= FdLimit THEN -1 ELSE 0

\* A connection arrives on the listener: an edge for its registration.
ConnArrive ==
    /\ backlog < MaxBacklog
    /\ backlog' = backlog + 1
    /\ lev' = (lev \/ listener_registered)
    /\ UNCHANGED <<connVars, kernVars, processVars, apc, listener_registered, conns, others, fd_,
                   reserve_init, conn_fd, batch, accept_counters, last_accept, cycle>>

\* The reactor delivers the listener's event: accept_handler starts, and
\* get_reserve_fd() constructs the thread's guard on first use.
AcceptInvoke ==
    /\ apc = "idle" /\ lev /\ listener_registered
    /\ ErrorTotal < MaxAcceptErrors
    /\ lev' = FALSE
    /\ apc' = "accept"
    /\ batch' = 0
    /\ last_accept' = "none"
    /\ cycle' = NoCycle
    /\ reserve_init' = TRUE
    /\ IF reserve_init THEN UNCHANGED fd_ ELSE reopen
    /\ UNCHANGED <<connVars, kernVars, processVars, listener_registered, backlog, conns, others,
                   conn_fd, accept_counters>>

\* A bug: the loop goes on after an accept4 failure (continue).
BreakAcceptLoop_Continue == apc' = "accept" /\ UNCHANGED listener_registered

\* The loop leaves on an accept4 failure (break): the handler returns, the
\* listener stays registered.
BreakAcceptLoop == apc' = "idle" /\ UNCHANGED listener_registered

\* One turn of the accept loop: accept4, then register the connection or
\* handle the failure.
AcceptStep ==
    /\ apc = "accept"
    /\ \E r \in AcceptResults \cup InjectedErrors :
         /\ last_accept' = r
         /\ \/ /\ r = "eagain"
               /\ BreakAcceptLoop
               /\ UNCHANGED <<conns, backlog, batch, accept_counters, cycle>>
            \/ /\ r \in InjectedErrors
               /\ count_accept_error(r)
               /\ BreakAcceptLoop
               /\ UNCHANGED <<conns, backlog, batch, cycle>>
            \/ /\ r = "emfile"
               /\ count_accept_error(r)
               /\ IF fd_ < 0
                  THEN BreakAcceptLoop /\ UNCHANGED cycle
                  ELSE /\ apc' = "close_reserve"
                       /\ cycle' = [steps |-> <<>>, pending |-> backlog > 0,
                                    held |-> ThreadFds, done |-> FALSE]
                       /\ UNCHANGED listener_registered
               /\ UNCHANGED <<conns, backlog, batch>>
            \/ /\ r = "ok"
               /\ conns' = conns + 1
               /\ batch' = batch + 1
               /\ backlog' = backlog - 1
               /\ UNCHANGED <<apc, listener_registered, accept_counters, cycle>>
    /\ UNCHANGED <<connVars, kernVars, processVars, lev, others, fd_, reserve_init, conn_fd>>

\* handle_emfile: ::close(fd_); fd_ = -1;
EmfileCloseReserve ==
    /\ apc = "close_reserve"
    /\ fd_' = -1
    /\ cycle' = [cycle EXCEPT !.steps = Append(@, "close_reserve")]
    /\ apc' = "emfile_accept"
    /\ UNCHANGED <<connVars, kernVars, processVars, lev, listener_registered, backlog, conns, others,
                   reserve_init, conn_fd, batch, accept_counters, last_accept>>

\* handle_emfile: conn_fd = ::accept4(listener_fd, ...)
EmfileAccept ==
    /\ apc = "emfile_accept"
    /\ \E r \in AcceptResults :
         IF r = "ok"
         THEN /\ conn_fd' = 0
              /\ backlog' = backlog - 1
              /\ cycle' = [cycle EXCEPT !.steps = Append(@, "accept")]
              /\ apc' = "emfile_close"
         ELSE /\ conn_fd' = -1
              /\ cycle' = [cycle EXCEPT !.steps = Append(@, "accept_failed")]
              /\ apc' = "reopen"
              /\ UNCHANGED backlog
    /\ UNCHANGED <<connVars, kernVars, processVars, lev, listener_registered, conns, others, fd_,
                   reserve_init, batch, accept_counters, last_accept>>

\* A bug: handle_emfile forgets to close the connection it accepted.
EmfileCloseConn_Leak ==
    /\ apc = "emfile_close"
    /\ cycle' = [cycle EXCEPT !.steps = Append(@, "close_conn")]
    /\ apc' = "reopen"
    /\ UNCHANGED <<connVars, kernVars, processVars, lev, listener_registered, backlog, conns, others,
                   fd_, reserve_init, conn_fd, batch, accept_counters, last_accept>>

\* handle_emfile: if (conn_fd >= 0) ::close(conn_fd);
EmfileCloseConn ==
    /\ apc = "emfile_close"
    /\ conn_fd' = -1
    /\ cycle' = [cycle EXCEPT !.steps = Append(@, "close_conn")]
    /\ apc' = "reopen"
    /\ UNCHANGED <<connVars, kernVars, processVars, lev, listener_registered, backlog, conns, others,
                   fd_, reserve_init, batch, accept_counters, last_accept>>

\* handle_emfile: reopen(); ++recovered; return true; and the loop's break.
EmfileReopen ==
    /\ apc = "reopen"
    /\ reopen
    /\ accept_counters' = [accept_counters EXCEPT !.recovered = @ + 1]
    /\ cycle' = [cycle EXCEPT !.steps = Append(@, "reopen"), !.done = TRUE]
    /\ BreakAcceptLoop
    /\ UNCHANGED <<connVars, kernVars, processVars, lev, backlog, conns, others, reserve_init,
                   conn_fd, batch, last_accept>>

\* handle_connection releases a connection of this thread: its descriptor
\* is closed.  The reactor is single-threaded: not while accept_handler runs.
ConnRelease ==
    /\ apc = "idle"
    /\ conns > 0
    /\ conns' = conns - 1
    /\ UNCHANGED <<connVars, kernVars, processVars, apc, lev, listener_registered, backlog, others, fd_,
                   reserve_init, conn_fd, batch, accept_counters, last_accept, cycle>>

\* Another worker thread opens a descriptor (accepts a connection of its own).
OtherOpen ==
    /\ OpenFds < FdLimit
    /\ others' = others + 1
    /\ UNCHANGED <<connVars, kernVars, processVars, apc, lev, listener_registered, backlog, conns, fd_,
                   reserve_init, conn_fd, batch, accept_counters, last_accept, cycle>>

\* Another worker thread closes one of its descriptors.
OtherClose ==
    /\ others > 0
    /\ others' = others - 1
    /\ UNCHANGED <<connVars, kernVars, processVars, apc, lev, listener_registered, backlog, conns, fd_,
                   reserve_init, conn_fd, batch, accept_counters, last_accept, cycle>>

InitAccept ==
    /\ apc = "idle"
    /\ lev = FALSE
    /\ listener_registered = TRUE
    /\ backlog = 0
    /\ conns = 0
    /\ others = 0
    /\ fd_ = -1
    /\ reserve_init = FALSE
    /\ conn_fd = -1
    /\ batch = 0
    /\ accept_counters = [emfile |-> 0, enfile |-> 0, enomem |-> 0, enobufs |-> 0,
                          other |-> 0, recovered |-> 0]
    /\ last_accept = "none"
    /\ cycle = NoCycle

\* ------------------------------------------------------------------------
\* Ownership of connection_state
\* ------------------------------------------------------------------------
\* The connections of one reactor thread.  A state is owned by the
\* std::shared_ptr copies and the std::unique_ptr that point to it, and it is
\* destroyed when the last of them goes.  The state owns its fd_watch
\* (state.watch), the fd_watch owns the callback and what it captured.
origins == {"run", "accept_connection"}
ConnIds == 1..MaxConns

\* The connection the next accept creates.
NextConn == CHOOSE c \in ConnIds : origin[c] = "none" /\ \A d \in 1..(c - 1) : origin[d] # "none"

\* The state is destroyed with its last owner.
DropOwner(c, o) ==
    /\ owners' = [owners EXCEPT ![c] = @ \ {o}]
    /\ alive' = [alive EXCEPT ![c] = @ /\ owners'[c] # {}]

\* accept_handler of run(): make_shared, then the callback captures `state`
\* by value (a shared_ptr copy) and state_ptr; the local `state` goes at the
\* end of the loop body.
RunAcceptRegister ==
    /\ running = 0
    /\ \E c \in ConnIds : origin[c] = "none"
    /\ LET c == NextConn
       IN  /\ origin' = [origin EXCEPT ![c] = "run"]
           /\ alive' = [alive EXCEPT ![c] = TRUE]
           /\ watch' = [watch EXCEPT ![c] = TRUE]
           /\ owners' = [owners EXCEPT ![c] = {"callback"}]
    /\ UNCHANGED <<connVars, kernVars, acceptVars, shutVars, routeVars, toolVars, running>>

\* accept_connection(): make_unique, the callback captures the raw state_ptr,
\* and the unique_ptr is moved into `connections`.
accept_connection ==
    /\ running = 0
    /\ \E c \in ConnIds : origin[c] = "none"
    /\ LET c == NextConn
       IN  /\ origin' = [origin EXCEPT ![c] = "accept_connection"]
           /\ alive' = [alive EXCEPT ![c] = TRUE]
           /\ watch' = [watch EXCEPT ![c] = TRUE]
           /\ owners' = [owners EXCEPT ![c] = {"connections"}]
    /\ UNCHANGED <<connVars, kernVars, acceptVars, shutVars, routeVars, toolVars, running>>

\* The reactor runs the callback of a registered connection:
\* handle_connection(*state_ptr, r).
CallbackInvoke ==
    /\ running = 0
    /\ \E c \in ConnIds :
         /\ watch[c]
         /\ running' = c
    /\ UNCHANGED <<connVars, kernVars, acceptVars, shutVars, routeVars, toolVars, origin, alive, watch, owners>>

\* handle_connection returns through state.watch->modify(...); return;
CallbackReturn ==
    /\ running # 0
    /\ running' = 0
    /\ UNCHANGED <<connVars, kernVars, acceptVars, shutVars, routeVars, toolVars, origin, alive, watch, owners>>

\* handle_connection returns through state.watch.reset(); return;  The
\* fd_watch goes, and with it the callback and the shared_ptr it captured.
CallbackReset ==
    /\ running # 0
    /\ watch' = [watch EXCEPT ![running] = FALSE]
    /\ DropOwner(running, "callback")
    /\ running' = 0
    /\ UNCHANGED <<connVars, kernVars, acceptVars, shutVars, routeVars, toolVars, origin>>

InitLife ==
    /\ origin = [c \in ConnIds |-> "none"]
    /\ alive = [c \in ConnIds |-> FALSE]
    /\ watch = [c \in ConnIds |-> FALSE]
    /\ owners = [c \in ConnIds |-> {}]
    /\ running = 0

\* ------------------------------------------------------------------------
\* server::run and the shutdown manager
\* ------------------------------------------------------------------------
\* Signals the process handles.
Signals == {"SIGINT", "SIGTERM"}
Configs == [reuseport : BOOLEAN, on_start : BOOLEAN, on_stop : BOOLEAN]

\* reactor_pool::graceful_stop(timeout): the reactors are told to stop; a
\* pool that is not running yet remembers the request.
graceful_stop(p) ==
    IF p = "created" THEN "stop_requested"
    ELSE IF p = "running" THEN "stopping"
    ELSE p

\* The lambda run() gives to set_shutdown_callback:
\* if (on_stop_callback_) on_stop_callback_(); pool.graceful_stop(shutdown_timeout_);
ShutdownCallback ==
    /\ stop_log' = stop_log \o (IF config.on_stop THEN <<"on_stop">> ELSE <<>>)
                            \o <<"graceful_stop">>
    /\ pool' = graceful_stop(pool)

\* shutdown_manager::request_shutdown: sets the flag and runs the callback
\* it holds, if it holds one.
request_shutdown ==
    /\ shutdown_requested' = TRUE
    /\ IF shutdown_callback THEN ShutdownCallback ELSE UNCHANGED <<stop_log, pool>>

NoListener == [object |-> "none", socket |-> "none", watch |-> FALSE, invoked |-> FALSE]

\* ~tcp_listener(): the object is gone and its socket is closed.
destroy_listener(l) == [l EXCEPT !.object = "destroyed", !.socket = "closed"]

\* A bug: run() returns 0 when the listeners cannot be started.
RunListen_FailureReturnsZero ==
    /\ rpc = "listen"
    /\ \/ /\ listener' = [object |-> IF config.reuseport THEN "pool" ELSE "alive",
                          socket |-> "open", watch |-> TRUE, invoked |-> FALSE]
          /\ rpc' = IF config.reuseport THEN "listening" ELSE "block_end"
          /\ UNCHANGED ret
       \/ rpc' = "returned" /\ ret' = 0 /\ UNCHANGED listener
    /\ UNCHANGED <<connVars, kernVars, acceptVars, lifeVars, routeVars, toolVars, config, shutdown_callback,
                   shutdown_requested, pool, signals, stop_log>>

\* run(): the listeners.  With reuseport_ pool.start_listening creates them
\* in the pool; otherwise one tcp_listener is created in the else block and
\* a watch on its descriptor is registered on reactor 0, with a callback
\* that refers to the listener.  return 1 when they cannot be created.
RunListen ==
    /\ rpc = "listen"
    /\ \/ /\ listener' = [object |-> IF config.reuseport THEN "pool" ELSE "alive",
                          socket |-> "open", watch |-> TRUE, invoked |-> FALSE]
          /\ rpc' = IF config.reuseport THEN "listening" ELSE "block_end"
          /\ UNCHANGED ret
       \/ rpc' = "returned" /\ ret' = 1 /\ UNCHANGED listener
    /\ UNCHANGED <<connVars, kernVars, acceptVars, lifeVars, routeVars, toolVars, config, shutdown_callback,
                   shutdown_requested, pool, signals, stop_log>>

\* The else block of run() ends: its local tcp_listener is destroyed; the
\* watch, moved into accept_watches, stays.
ListenerBlockEnds ==
    /\ rpc = "block_end"
    /\ listener' = destroy_listener(listener)
    /\ rpc' = "listening"
    /\ UNCHANGED <<connVars, kernVars, acceptVars, lifeVars, routeVars, toolVars, config, shutdown_callback,
                   shutdown_requested, pool, signals, stop_log, ret>>

\* A reactor of the running pool reports the listening socket readable: the
\* listen callback runs accept_handler.
ListenCallback ==
    /\ pool = "running"
    /\ listener.watch /\ listener.socket = "open" /\ ~listener.invoked
    /\ listener' = [listener EXCEPT !.invoked = TRUE]
    /\ UNCHANGED <<connVars, kernVars, acceptVars, lifeVars, routeVars, toolVars, rpc, config, shutdown_callback,
                   shutdown_requested, pool, signals, stop_log, ret>>

\* shutdown_manager::instance().setup_signal_handlers()
setup_signal_handlers ==
    /\ rpc = "listening"
    /\ rpc' = "handlers_installed"
    /\ UNCHANGED <<connVars, kernVars, acceptVars, lifeVars, routeVars, toolVars, listener, config, shutdown_callback,
                   shutdown_requested, pool, signals, stop_log, ret>>

\* shutdown_manager::instance().set_shutdown_callback(...)
set_shutdown_callback ==
    /\ rpc = "handlers_installed"
    /\ shutdown_callback' = TRUE
    /\ rpc' = "callback_set"
    /\ UNCHANGED <<connVars, kernVars, acceptVars, lifeVars, routeVars, toolVars, listener, config, shutdown_requested,
                   pool, signals, stop_log, ret>>

\* on_start_callback_(), or the banner on std::cout
RunOnStart ==
    /\ rpc = "callback_set"
    /\ rpc' = "announced"
    /\ UNCHANGED <<connVars, kernVars, acceptVars, lifeVars, routeVars, toolVars, listener, config, shutdown_callback,
                   shutdown_requested, pool, signals, stop_log, ret>>

\* pool.start(): the reactor threads start.  Whether a stop requested before
\* the start still holds afterwards is the pool's business: either.
PoolStart ==
    /\ rpc = "announced"
    /\ rpc' = "waiting"
    /\ pool' \in (IF pool = "stop_requested" THEN {"running", "stopped"} ELSE {"running"})
    /\ UNCHANGED <<connVars, kernVars, acceptVars, lifeVars, routeVars, toolVars, listener, config, shutdown_callback,
                   shutdown_requested, signals, stop_log, ret>>

\* The reactors drain and stop, at the latest when the timeout expires.
PoolDrain ==
    /\ pool = "stopping"
    /\ pool' = "stopped"
    /\ UNCHANGED <<connVars, kernVars, acceptVars, lifeVars, routeVars, toolVars, listener, rpc, config, shutdown_callback,
                   shutdown_requested, signals, stop_log, ret>>

\* pool.wait() returns when the reactor threads have stopped; return 0;
\* accept_watches and the pool are destroyed.
PoolWaitReturns ==
    /\ rpc = "waiting" /\ pool = "stopped"
    /\ rpc' = "returned"
    /\ ret' = 0
    /\ listener' = [destroy_listener(listener) EXCEPT !.watch = FALSE]
    /\ UNCHANGED <<connVars, kernVars, acceptVars, lifeVars, routeVars, toolVars, config, shutdown_callback,
                   shutdown_requested, pool, signals, stop_log>>

\* A signal is delivered while run() is past setup_signal_handlers:
\* signal_handler calls request_shutdown().
SignalDelivered ==
    /\ rpc \in {"handlers_installed", "callback_set", "announced", "waiting"}
    /\ Len(signals) < MaxSignals
    /\ \E sig \in Signals : signals' = Append(signals, sig)
    /\ request_shutdown
    /\ UNCHANGED <<connVars, kernVars, acceptVars, lifeVars, routeVars, toolVars, listener, rpc, config, shutdown_callback, ret>>

InitShutdown(configs) ==
    /\ rpc = "listen"
    /\ config \in configs
    /\ shutdown_callback = FALSE
    /\ shutdown_requested = FALSE
    /\ pool = "created"
    /\ signals = <<>>
    /\ stop_log = <<>>
    /\ ret = -1
    /\ listener = NoListener

\* ------------------------------------------------------------------------
\* The router
\* ------------------------------------------------------------------------
\* A URI and a literal segment are sequences of characters.  A pattern is
\* the segment list path_pattern::from_literal produced.

\* enum class method, in declaration order.
Methods == <<"GET", "HEAD", "POST", "PUT", "DELETE", "PATCH", "OPTIONS">>
MAX_ROUTE_SEGMENTS == 16

Chars == {"/", "a", "?"}
Literal(text) == [kind |-> "literal", text |-> text]
Param(name) == [kind |-> "param", text |-> name]
\* /a, /{id}, /a/a, /a/{id}, /{id}/a
Patterns ==
    { <<Literal(<<"a">>)>>, <<Param(<<"id">>)>>,
      <<Literal(<<"a">>), Literal(<<"a">>)>>,
      <<Literal(<<"a">>), Param(<<"id">>)>>,
      <<Param(<<"id">>), Literal(<<"a">>)>> }
RouteMethods == {"GET", "DELETE"}
RequestMethods == {"GET", "PUT", "DELETE"}
RouteEntries == [method : RouteMethods, pattern : Patterns]

SeqsUpTo(S, n) == UNION {[1..k -> S] : k \in 0..n}
\* Request URIs: they start with '/'.
Uris == {u \in SeqsUpTo(Chars, MaxUriLen) : u # <<>> /\ u[1] = "/"}

Prefix(s, n) == SubSeq(s, 1, n)
IndexOf(s, ch) ==
    LET at == {i \in DOMAIN s : s[i] = ch}
    IN  IF at = {} THEN 0 ELSE MinOf(at)

\* A bug: the URI is cut at its last '?'.
strip_query_at_last(uri) ==
    LET at == {i \in DOMAIN uri : uri[i] = "?"}
    IN  IF at = {} THEN uri ELSE Prefix(uri, (CHOOSE i \in at : \A j \in at : j <= i) - 1)

\* The path of a URI: what comes before the first '?'.
strip_query(uri) ==
    LET q == IndexOf(uri, "?")
    IN  IF q = 0 THEN uri ELSE Prefix(uri, q - 1)

\* The pieces of s between its '/' characters.
RECURSIVE SplitOn(_, _)
SplitOn(s, acc) ==
    IF s = <<>> THEN <<acc>>
    ELSE IF Head(s) = "/" THEN <<acc>> \o SplitOn(Tail(s), <<>>)
    ELSE SplitOn(Tail(s), Append(acc, Head(s)))

\* A bug: the empty segment after a trailing '/' is dropped whatever the
\* pattern.
split_path_without_trailing(path) ==
    LET all == SplitOn(path, <<>>)
        body == IF all # <<>> /\ all[1] = <<>> THEN Tail(all) ELSE all
    IN  IF body # <<>> /\ body[Len(body)] = <<>> THEN Prefix(body, Len(body) - 1) ELSE body

\* The segments of a path: split on '/', without the empty segment before
\* the leading '/'.  A trailing '/' leaves an empty last segment, which only
\* the empty last segment of a pattern written with a trailing '/' matches.
split_path(path) ==
    LET all == SplitOn(path, <<>>)
    IN  IF all # <<>> /\ all[1] = <<>> THEN Tail(all) ELSE all

\* A literal segment wants the same bytes, a parameter any non-empty segment.
match_segments(pattern, segs) ==
    /\ Len(pattern) = Len(segs)
    /\ \A i \in DOMAIN pattern :
         IF pattern[i].kind = "literal" THEN segs[i] = pattern[i].text
         ELSE segs[i] # <<>>

\* A bug: the k-th parameter is bound to the k-th segment of the path.
extract_params_by_rank(pattern, segs) ==
    LET at == SelectSeq([i \in DOMAIN pattern |-> i], LAMBDA i : pattern[i].kind = "param")
    IN  [k \in DOMAIN at |-> <<pattern[at[k]].text, segs[k]>>]

\* The params bag of a match: name and value of each parameter, in order.
extract_params(pattern, segs) ==
    LET at == SelectSeq([i \in DOMAIN pattern |-> i], LAMBDA i : pattern[i].kind = "param")
    IN  [k \in DOMAIN at |-> <<pattern[at[k]].text, segs[at[k]]>>]

Count2(pattern, kind) == Cardinality({i \in DOMAIN pattern : pattern[i].kind = kind})

\* A bug: a literal segment weighs 8.
specificity_score_weight_8(pattern) ==
    Count2(pattern, "literal") * 8 + (MAX_ROUTE_SEGMENTS - Count2(pattern, "param"))

\* A bug: parameters count for more than literals.
specificity_score_params_first(pattern) ==
    Count2(pattern, "param") * 16 + (MAX_ROUTE_SEGMENTS - Count2(pattern, "literal"))

\* score = literal_count * 16 + (MAX_ROUTE_SEGMENTS - param_count)
specificity_score(pattern) ==
    Count2(pattern, "literal") * 16 + (MAX_ROUTE_SEGMENTS - Count2(pattern, "param"))

\* A bug: a lookup that selected no route always answers method_not_allowed.
route_error_always_405(path_matched) == "method_not_allowed"

\* The error of a lookup that selected no route.
route_error(path_matched) ==
    IF path_matched THEN "method_not_allowed" ELSE "not_found"

\* A route serves the requests of its method, and a GET route those of HEAD.
Serves(route_method, method) ==
    route_method = method \/ (method = "HEAD" /\ route_method = "GET")

\* The linear scan of dispatch_with_info from entry i on: every entry whose
\* pattern matches the path adds its method to the mask; among those with
\* the request's method (or GET, for HEAD) the first with the highest score
\* is kept.
RECURSIVE Scan(_, _, _, _, _)
Scan(table, i, method, segs, acc) ==
    IF i > Len(table) THEN acc
    ELSE LET entry == table[i]
             score == specificity_score(entry.pattern)
         IN  IF ~match_segments(entry.pattern, segs)
             THEN Scan(table, i + 1, method, segs, acc)
             ELSE LET seen == [acc EXCEPT !.path_matched = TRUE,
                                          !.allowed_methods_mask = @ \cup {entry.method}]
                  IN  IF Serves(entry.method, method) /\ score > acc.best_score
                      THEN Scan(table, i + 1, method, segs,
                                [seen EXCEPT !.best_route = i, !.best_score = score])
                      ELSE Scan(table, i + 1, method, segs, seen)

\* router::dispatch_with_info: the selected route's handler is invoked and
\* its result, a response or an error code, is the result of the dispatch.
dispatch_with_info(table, request) ==
    LET segs == split_path(strip_query(request.uri))
        found == Scan(table, 1, request.http_method, segs,
                      [best_route |-> 0, best_score |-> -1, path_matched |-> FALSE,
                       allowed_methods_mask |-> {}])
    IN  IF found.best_route # 0
        THEN [code |-> IF handler_result = "response" THEN "ok" ELSE "handler_error",
              route |-> found.best_route,
              params |-> extract_params(table[found.best_route].pattern, segs),
              path_matched |-> TRUE, allowed_methods_mask |-> found.allowed_methods_mask]
        ELSE [code |-> route_error(found.path_matched), route |-> 0, params |-> <<>>,
              path_matched |-> found.path_matched,
              allowed_methods_mask |-> found.allowed_methods_mask]

RECURSIVE Join(_, _)
Join(names, sep) ==
    IF Len(names) <= 1 THEN names
    ELSE <<Head(names), sep>> \o Join(Tail(names), sep)

\* A bug: the Allow header forgets DELETE.
allow_header_without_delete(mask) ==
    Join(SelectSeq(Methods, LAMBDA m : m \in mask /\ m # "DELETE"), ", ")

\* A bug: HEAD is listed wherever GET is.
allow_header_with_head(mask) ==
    Join(SelectSeq(Methods, LAMBDA m : m \in mask \/ (m = "HEAD" /\ "GET" \in mask)), ", ")

\* allow_header_from_mask: the methods of the mask in the order of the
\* enumeration, joined by ", ".
allow_header_from_mask(mask) ==
    Join(SelectSeq(Methods, LAMBDA m : m \in mask), ", ")

NoAllow == <<>>

\* A bug: the error code of a handler is passed on instead of a response.
dispatch_or_problem_passes_errors(table, request) ==
    LET res == dispatch_with_info(table, request)
    IN  IF res.code = "ok"
        THEN [code |-> res.code, status |-> 200, body |-> "handler", route |-> res.route,
              params |-> res.params, allow |-> NoAllow]
        ELSE IF res.code = "method_not_allowed"
        THEN [code |-> res.code, status |-> 405, body |-> "problem+json", route |-> 0,
              params |-> <<>>, allow |-> allow_header_from_mask(res.allowed_methods_mask)]
        ELSE IF res.code = "not_found"
        THEN [code |-> res.code, status |-> 404, body |-> "problem+json", route |-> 0,
              params |-> <<>>, allow |-> NoAllow]
        ELSE [code |-> res.code, status |-> 0, body |-> "", route |-> res.route,
              params |-> res.params, allow |-> NoAllow]

\* dispatch_or_problem: the handler's response, or the problem details of
\* the error: 405 with Allow, 404, and 500 for any other error code.
dispatch_or_problem(table, request) ==
    LET res == dispatch_with_info(table, request)
    IN  IF res.code = "ok"
        THEN [code |-> res.code, status |-> 200, body |-> "handler", route |-> res.route,
              params |-> res.params, allow |-> NoAllow]
        ELSE IF res.code = "method_not_allowed"
        THEN [code |-> res.code, status |-> 405, body |-> "problem+json", route |-> 0,
              params |-> <<>>, allow |-> allow_header_from_mask(res.allowed_methods_mask)]
        ELSE IF res.code = "not_found"
        THEN [code |-> res.code, status |-> 404, body |-> "problem+json", route |-> 0,
              params |-> <<>>, allow |-> NoAllow]
        ELSE [code |-> res.code, status |-> 500, body |-> "problem+json", route |-> res.route,
              params |-> res.params, allow |-> NoAllow]

NoResponse ==
    [code |-> "none", status |-> 0, body |-> "", route |-> 0, params |-> <<>>, allow |-> NoAllow]

\* The request is dispatched: r.dispatch(req, ctx) and dispatch_or_problem(r, req, ctx).
Dispatch_ ==
    /\ route_resp = NoResponse
    /\ route_resp' = dispatch_or_problem(routes, route_req)
    /\ UNCHANGED <<connVars, kernVars, acceptVars, lifeVars, shutVars, toolVars, routes, route_req>>

InitRouter(tables, requests) ==
    /\ routes \in tables
    /\ route_req \in requests
    /\ route_resp = NoResponse

\* ------------------------------------------------------------------------
\* The middleware chain of a route
\* ------------------------------------------------------------------------
\* A middleware either calls next() and returns what it returned, or returns
\* a response or an error of its own without calling next().
MiddlewareKinds == {"next", "respond", "fail"}
HandlerResults == {"response", "error"}
NoResult == [kind |-> "none", by |-> 0]
\* What a middleware that does not call next() returns.
OwnResult(kind, i) == [kind |-> IF kind = "respond" THEN "response" ELSE "error", by |-> i]
\* Where control is once frame i has returned: its caller, or dispatch's caller.
Returned(i) == IF i = 1 THEN "done" ELSE "up"

\* dispatch runs the chain of the selected route from its first middleware.
ChainDispatch ==
    /\ chain_pc = "idle"
    /\ chain_pc' = "down"
    /\ depth' = 1
    /\ UNCHANGED <<connVars, kernVars, acceptVars, lifeVars, shutVars, routeVars, genVars, scoreVars, emitVars,
                   chain, handler_result, trace, chain_result>>

\* A bug: a middleware's next() invokes the handler directly.
MiddlewareBefore_NextIsHandler ==
    /\ chain_pc = "down" /\ depth <= Len(chain)
    /\ trace' = Append(trace, [phase |-> "before", at |-> depth, saw |-> "none"])
    /\ IF chain[depth] = "next"
       THEN /\ depth' = Len(chain) + 1
            /\ UNCHANGED <<chain_pc, chain_result>>
       ELSE /\ chain_result' = OwnResult(chain[depth], depth)
            /\ depth' = depth - 1
            /\ chain_pc' = Returned(depth)
    /\ UNCHANGED <<connVars, kernVars, acceptVars, lifeVars, shutVars, routeVars, genVars, scoreVars, emitVars,
                   chain, handler_result>>

\* A bug: next() is called on behalf of a middleware that did not call it.
MiddlewareBefore_AlwaysNext ==
    /\ chain_pc = "down" /\ depth <= Len(chain)
    /\ trace' = Append(trace, [phase |-> "before", at |-> depth, saw |-> "none"])
    /\ depth' = depth + 1
    /\ UNCHANGED <<chain_pc, chain_result>>
    /\ UNCHANGED <<connVars, kernVars, acceptVars, lifeVars, shutVars, routeVars, genVars, scoreVars, emitVars,
                   chain, handler_result>>

\* Middleware `depth` is entered: its before-phase, then either next(), which
\* enters the following middleware or the handler, or its own return.
MiddlewareBefore ==
    /\ chain_pc = "down" /\ depth <= Len(chain)
    /\ trace' = Append(trace, [phase |-> "before", at |-> depth, saw |-> "none"])
    /\ IF chain[depth] = "next"
       THEN /\ depth' = depth + 1
            /\ UNCHANGED <<chain_pc, chain_result>>
       ELSE /\ chain_result' = OwnResult(chain[depth], depth)
            /\ depth' = depth - 1
            /\ chain_pc' = Returned(depth)
    /\ UNCHANGED <<connVars, kernVars, acceptVars, lifeVars, shutVars, routeVars, genVars, scoreVars, emitVars,
                   chain, handler_result>>

\* The last next() invokes the handler, which returns its result.
HandlerInvoke ==
    /\ chain_pc = "down" /\ depth = Len(chain) + 1
    /\ trace' = Append(trace, [phase |-> "handler", at |-> depth, saw |-> "none"])
    /\ chain_result' = [kind |-> handler_result, by |-> depth]
    /\ depth' = depth - 1
    /\ chain_pc' = Returned(depth)
    /\ UNCHANGED <<connVars, kernVars, acceptVars, lifeVars, shutVars, routeVars, genVars, scoreVars, emitVars,
                   chain, handler_result>>

\* next() returns into middleware `depth`: its after-phase sees the result
\* and returns it.
MiddlewareAfter ==
    /\ chain_pc = "up" /\ depth >= 1
    /\ trace' = Append(trace, [phase |-> "after", at |-> depth, saw |-> chain_result.kind])
    /\ depth' = depth - 1
    /\ chain_pc' = Returned(depth)
    /\ UNCHANGED <<connVars, kernVars, acceptVars, lifeVars, shutVars, routeVars, genVars, scoreVars, emitVars,
                   chain, handler_result, chain_result>>

InitChain(chains, results) ==
    /\ chain \in chains
    /\ handler_result \in results
    /\ chain_pc = "idle"
    /\ depth = 0
    /\ trace = <<>>
    /\ chain_result = NoResult

Chains == SeqsUpTo(MiddlewareKinds, MaxChain)

\* ------------------------------------------------------------------------
\* The routers katana_gen generates
\* ------------------------------------------------------------------------
\* hash_string is FNV-1a; the model keeps its low HashBits bits, which are
\* the FNV-1a of the low bits of the offset basis and of the prime.
FnvOffsetBasis == 8997  \* 14695981039346656037 % 2^16
FnvPrime == 435         \* 1099511628211 % 2^16
RECURSIVE Pow2(_)
Pow2(n) == IF n = 0 THEN 1 ELSE 2 * Pow2(n - 1)
CharCode(c) ==
    CASE c = "/" -> 47 [] c = "?" -> 63 [] c = "a" -> 97 [] c = "b" -> 98 [] OTHER -> 0
RECURSIVE Xor(_, _, _)
Xor(a, b, bits) ==
    IF bits = 0 THEN 0
    ELSE (((a % 2) + (b % 2)) % 2) + 2 * Xor(a \div 2, b \div 2, bits - 1)
RECURSIVE hash_from(_, _)
hash_from(hash, str) ==
    IF str = <<>> THEN hash
    ELSE hash_from((Xor(hash, CharCode(Head(str)) % Pow2(HashBits), HashBits) * FnvPrime)
                       % Pow2(HashBits), Tail(str))
hash_string(str) == hash_from(FnvOffsetBasis % Pow2(HashBits), str)

\* The operations of a document: path, method, and whether the operation
\* has a required string parameter, named a, in the query.
QueryKey == <<"a">>
GenPatterns == { <<Literal(<<"a">>)>>, <<Literal(<<"a", "a">>)>>, <<Param(<<"id">>)>> }
Operations == [path : GenPatterns, method : {"GET", "POST"}, query : {"none", "required"}]
\* path.path.find('{') != npos
has_params(pattern) == \E k \in DOMAIN pattern : pattern[k].kind = "param"
\* The text of a path without parameters.
RECURSIVE PathText(_)
PathText(pattern) ==
    IF pattern = <<>> THEN <<>> ELSE <<"/">> \o Head(pattern).text \o PathText(Tail(pattern))
\* static_routes: the operations without path parameters, in document order.
static_routes(d) == {i \in DOMAIN d : ~has_params(d[i].path)}
\* The case labels of fast_router's switch are pairwise different, or the
\* generated code is not a program.
Compiles(d) ==
    \A i, j \in static_routes(d) :
        i # j => hash_string(PathText(d[i].path)) # hash_string(PathText(d[j].path))
Docs == {d \in SeqsUpTo(Operations, MaxRoutes) : Compiles(d)}
\* route_entries of make_router: one entry per operation, in document order.
route_entries(d) == [i \in DOMAIN d |-> [method |-> d[i].method, pattern |-> d[i].path]]

\* query_param(uri, key): the value of key in the query of uri, if any.  The
\* URIs of the model have neither '&' nor '=': the query is one name.
query_param(uri, key) ==
    LET qpos == IndexOf(uri, "?")
    IN  qpos # 0 /\ SubSeq(uri, qpos + 1, Len(uri)) = key

NoCall == [code |-> "none", op |-> 0, args |-> <<>>]
\* The handler_fn of operation i in make_router: path parameters from
\* ctx.params, then the query parameter, 400 when it is required and
\* missing, then handler.<operation>(arguments).
route_entry_handler(d, i, request, params) ==
    IF d[i].query = "required" /\ ~query_param(request.uri, QueryKey)
    THEN [code |-> "bad_request", op |-> 0, args |-> <<>>]
    ELSE [code |-> "ok", op |-> i,
          args |-> [k \in DOMAIN params |-> params[k][2]]
                   \o (IF d[i].query = "required" THEN <<<<>>>> ELSE <<>>)]

\* dispatch_<operation> of a static route: handler.<operation>() with the
\* body only; query, header and cookie parameters are not handled.
dispatch_static(d, i, request) == [code |-> "ok", op |-> i, args |-> <<>>]

\* router::dispatch of the router make_router builds.
fallback_dispatch(d, request) ==
    LET res == dispatch_with_info(route_entries(d), request)
    IN  IF res.route # 0 THEN route_entry_handler(d, res.route, request, res.params)
        ELSE [code |-> res.code, op |-> 0, args |-> <<>>]

\* fast_router::operator(): the query is cut off, the path's hash selects a
\* case, and the case dispatches inline when path and method are its own.
fast_router(d, request) ==
    LET path == strip_query(request.uri)
        hit == {i \in static_routes(d) : hash_string(PathText(d[i].path)) = hash_string(path)}
    IN  IF \E i \in hit : path = PathText(d[i].path) /\ request.http_method = d[i].method
        THEN dispatch_static(d, CHOOSE i \in hit : TRUE, request)
        ELSE fallback_dispatch(d, request)

\* fast_router is given the request.
FastRouterCall ==
    /\ fast_out = NoCall
    /\ fast_out' = fast_router(doc, gen_req)
    /\ UNCHANGED <<connVars, kernVars, acceptVars, lifeVars, shutVars, routeVars, chainVars, scoreVars, emitVars,
                   doc, gen_req, fallback_out>>

\* The router of make_router is given the same request.
FallbackDispatch ==
    /\ fast_out # NoCall /\ fallback_out = NoCall
    /\ fallback_out' = fallback_dispatch(doc, gen_req)
    /\ UNCHANGED <<connVars, kernVars, acceptVars, lifeVars, shutVars, routeVars, chainVars, scoreVars, emitVars,
                   doc, gen_req, fast_out>>

InitGen(docs, requests) ==
    /\ doc \in docs
    /\ gen_req \in requests
    /\ fast_out = NoCall
    /\ fallback_out = NoCall

GenRequests == [http_method : {"GET", "POST"}, uri : Uris]
\* No generated router.
NoGen == InitGen({<<>>}, {[http_method |-> "GET", uri |-> <<"/">>]})
\* The pattern of l literal segments and p parameter segments.
PatternOf(l, p) ==
    [i \in 1..(l + p) |-> IF i <= l THEN Literal(<<"a">>) ELSE Param(<<"id">>)]
\* One pattern for each number of literal and parameter segments a pattern
\* of at most MAX_ROUTE_SEGMENTS segments can have.
ScoredPatterns ==
    {PatternOf(c[1], c[2]) :
        c \in {d \in (0..MAX_ROUTE_SEGMENTS) \X (0..MAX_ROUTE_SEGMENTS) :
                 d[1] + d[2] <= MAX_ROUTE_SEGMENTS}}

\* The priority scores of the two patterns are computed.
Score ==
    /\ scores = <<>>
    /\ scores' = <<specificity_score(scored[1]), specificity_score(scored[2])>>
    /\ UNCHANGED <<connVars, kernVars, acceptVars, lifeVars, shutVars, routeVars, chainVars,
                   genVars, emitVars, scored>>

InitScore(patterns) ==
    /\ scored \in patterns \X patterns
    /\ scores = <<>>
NoScore == InitScore({<<>>})

\* The operations of a document as the code generator reads them: whether
\* the operation has an operation_id, a request body with content, and a
\* response with content.
IndexedOperations == [operation_id : {"", "op"}, body : BOOLEAN, response_content : BOOLEAN]
IndexedDocs == SeqsUpTo(IndexedOperations, MaxOps)

\* The arrays an operation has: route_<idx>_consumes for a request body
\* with content, route_<idx>_produces for a response with content.  op is
\* the position of the operation in the document.
ArraysOf(d, i, route_idx) ==
    {[name |-> <<"route", route_idx, kind>>, op |-> i] :
        kind \in {k \in {"consumes", "produces"} :
                    \/ k = "consumes" /\ d[i].body
                    \/ k = "produces" /\ d[i].response_content}}

\* generate_router_table: the loop that defines the content type arrays;
\* ++route_idx for every operation.
RECURSIVE generate_router_table(_, _, _)
generate_router_table(d, i, route_idx) ==
    IF i > Len(d) THEN {}
    ELSE ArraysOf(d, i, route_idx) \cup generate_router_table(d, i + 1, route_idx + 1)

\* generate_router_bindings: the loop that writes the route entries and
\* the dispatch functions; an operation without operation_id is skipped by
\* `continue`, before ++route_idx.
RECURSIVE generate_router_bindings(_, _, _)
generate_router_bindings(d, i, route_idx) ==
    IF i > Len(d) THEN {}
    ELSE IF d[i].operation_id = "" THEN generate_router_bindings(d, i + 1, route_idx)
    ELSE ArraysOf(d, i, route_idx) \cup generate_router_bindings(d, i + 1, route_idx + 1)

\* katana_gen writes generated_routes.hpp.
GenerateRouterTable ==
    /\ table_out = <<>>
    /\ table_out' = <<generate_router_table(doc, 1, 0)>>
    /\ UNCHANGED <<connVars, kernVars, acceptVars, lifeVars, shutVars, routeVars, chainVars,
                   genVars, scoreVars, bindings_out>>

\* katana_gen writes generated_router_bindings.hpp.
GenerateRouterBindings ==
    /\ bindings_out = <<>>
    /\ bindings_out' = <<generate_router_bindings(doc, 1, 0)>>
    /\ UNCHANGED <<connVars, kernVars, acceptVars, lifeVars, shutVars, routeVars, chainVars,
                   genVars, scoreVars, table_out>>

NoEmit == table_out = <<>> /\ bindings_out = <<>>

\* A route without middleware, and no generated router.
InitTools == InitChain({<<>>}, {"response"}) /\ NoGen /\ NoScore /\ NoEmit

Tables == SeqsUpTo(RouteEntries, MaxRoutes)
Requests == [http_method : RequestMethods, uri : Uris]

\* Routes with up to two parameters, and paths of two different bytes:
\* /a, /{id}, /a/{id}, /{id}/{to}.
ParamChars == {"/", "a", "b"}
ParamPatterns ==
    { <<Literal(<<"a">>)>>, <<Param(<<"id">>)>>,
      <<Literal(<<"a">>), Param(<<"id">>)>>,
      <<Param(<<"id">>), Param(<<"to">>)>> }
ParamTables == SeqsUpTo([method : {"GET"}, pattern : ParamPatterns], MaxRoutes)
ParamRequests ==
    [http_method : {"GET"},
     uri : {u \in SeqsUpTo(ParamChars, MaxUriLen) : u # <<>> /\ u[1] = "/"}]

\* Routes written with and without a trailing slash:
\* /a, /a/, /{id}, /{id}/, /a/a.
SlashPatterns ==
    { <<Literal(<<"a">>)>>, <<Literal(<<"a">>), Literal(<<>>)>>,
      <<Param(<<"id">>)>>, <<Param(<<"id">>), Literal(<<>>)>>,
      <<Literal(<<"a">>), Literal(<<"a">>)>> }
SlashTables == SeqsUpTo([method : {"GET"}, pattern : SlashPatterns], MaxRoutes)
SlashRequests == [http_method : {"GET"}, uri : Uris]

\* GET and POST routes, and requests that are HEAD, GET or PUT.
HeadPatterns == { <<Literal(<<"a">>)>>, <<Param(<<"id">>)>>,
                  <<Literal(<<"a">>), Literal(<<"a">>)>> }
HeadTables == SeqsUpTo([method : {"GET", "POST"}, pattern : HeadPatterns], MaxRoutes)
HeadRequests == [http_method : {"GET", "HEAD", "PUT"}, uri : Uris]

\* A server with every callback set and an empty route table.
DefaultConfig == [reuseport |-> TRUE, on_start |-> TRUE, on_stop |-> TRUE]
DefaultRequest == [http_method |-> "GET", uri |-> <<"/">>]
InitProcess ==
    /\ InitLife /\ InitShutdown({DefaultConfig}) /\ InitRouter({<<>>}, {DefaultRequest})
    /\ InitTools
\* run() under each configuration.
InitRun ==
    /\ InitConn /\ InitAccept /\ InitLife /\ inputs = AllInputs
    /\ InitShutdown(Configs) /\ InitRouter({<<>>}, {DefaultRequest})
    /\ InitTools
\* A router on each table, given each request.
InitDispatch ==
    /\ InitConn /\ InitAccept /\ InitLife /\ inputs = AllInputs
    /\ InitShutdown({DefaultConfig}) /\ InitRouter(Tables, Requests)
    /\ InitTools

\* A router on each table of parameter routes, given each request.
InitParams ==
    /\ InitConn /\ InitAccept /\ InitLife /\ inputs = AllInputs
    /\ InitShutdown({DefaultConfig}) /\ InitRouter(ParamTables, ParamRequests)
    /\ InitTools
\* A router on each table of routes with and without trailing slash.
InitSlash ==
    /\ InitConn /\ InitAccept /\ InitLife /\ inputs = AllInputs
    /\ InitShutdown({DefaultConfig}) /\ InitRouter(SlashTables, SlashRequests)
    /\ InitTools
\* A router on each table of GET and POST routes, given HEAD requests too.
InitHead ==
    /\ InitConn /\ InitAccept /\ InitLife /\ inputs = AllInputs
    /\ InitShutdown({DefaultConfig}) /\ InitRouter(HeadTables, HeadRequests)
    /\ InitTools
\* A router on each table, given each request, with handlers that answer
\* and handlers that fail.
InitProblem ==
    /\ InitConn /\ InitAccept /\ InitLife /\ inputs = AllInputs
    /\ InitShutdown({DefaultConfig}) /\ InitRouter(Tables, Requests)
    /\ InitChain({<<>>}, HandlerResults) /\ NoGen /\ NoScore /\ NoEmit
\* A route with each middleware chain and each handler result.
InitMiddleware ==
    /\ InitConn /\ InitAccept /\ InitLife /\ inputs = AllInputs
    /\ InitShutdown({DefaultConfig}) /\ InitRouter({<<>>}, {DefaultRequest})
    /\ InitChain(Chains, HandlerResults) /\ NoGen /\ NoScore /\ NoEmit
\* The routers generated from each document, given each request.
InitGenerated ==
    /\ InitConn /\ InitAccept /\ InitLife /\ inputs = AllInputs
    /\ InitShutdown({DefaultConfig}) /\ InitRouter({<<>>}, {DefaultRequest})
    /\ InitChain({<<>>}, {"response"}) /\ InitGen(Docs, GenRequests) /\ NoScore /\ NoEmit
\* Each pair of patterns of at most MAX_ROUTE_SEGMENTS segments.
InitPriority ==
    /\ InitConn /\ InitAccept /\ InitLife /\ inputs = AllInputs
    /\ InitShutdown({DefaultConfig}) /\ InitRouter({<<>>}, {DefaultRequest})
    /\ InitChain({<<>>}, {"response"}) /\ NoGen /\ InitScore(ScoredPatterns) /\ NoEmit
\* The code generator given each document.
InitKatanaGen ==
    /\ InitConn /\ InitAccept /\ InitLife /\ inputs = AllInputs
    /\ InitShutdown({DefaultConfig}) /\ InitRouter({<<>>}, {DefaultRequest})
    /\ InitChain({<<>>}, {"response"}) /\ InitGen(IndexedDocs, {DefaultRequest})
    /\ NoScore /\ NoEmit

Init == InitConn /\ InitAccept /\ InitProcess /\ inputs = AllInputs
InitLive == InitConn /\ InitAccept /\ InitProcess /\ inputs = LiveInputs

\* The connection given Connection headers in several letter cases.
InitCase == InitConn /\ InitAccept /\ InitProcess /\ inputs = CaseInputs

Next ==
    \/ Invoke
    \/ FlushStep
    \/ LoopStep
    \/ ParseStep
    \/ Read2Step
    \/ WriteStep
    \/ ClientSendHead
    \/ ClientSendEnd
    \/ ClientSendBad
    \/ PeerClose
    \/ PeerReset
    \/ PeerDrain

Spec == Init /\ [][Next]_vars

\* The connection driver on requests that differ in the case of their headers.
SpecCase == InitCase /\ [][Next]_vars

NextAccept ==
    \/ ConnArrive
    \/ AcceptInvoke
    \/ AcceptStep
    \/ EmfileCloseReserve
    \/ EmfileAccept
    \/ EmfileCloseConn
    \/ EmfileReopen
    \/ ConnRelease
    \/ OtherOpen
    \/ OtherClose

\* The accept handler of one worker thread, its listener, and the descriptor
\* table it shares with the other threads of the process.
SpecAccept == Init /\ [][NextAccept]_vars

NextLife ==
    \/ RunAcceptRegister
    \/ accept_connection
    \/ CallbackInvoke
    \/ CallbackReturn
    \/ CallbackReset

\* The connection states of one reactor thread and who owns them.
SpecLife == Init /\ [][NextLife]_vars

RunSteps ==
    RunListen \/ ListenerBlockEnds \/ setup_signal_handlers \/ set_shutdown_callback \/ RunOnStart \/ PoolStart
    \/ PoolWaitReturns

NextShutdown ==
    \/ RunListen
    \/ ListenerBlockEnds
    \/ ListenCallback
    \/ setup_signal_handlers
    \/ set_shutdown_callback
    \/ RunOnStart
    \/ PoolStart
    \/ PoolDrain
    \/ PoolWaitReturns
    \/ SignalDelivered

\* server::run from the listeners to its return, and the signals.
SpecShutdown == InitRun /\ [][NextShutdown]_vars

\* The main thread runs, and a pool told to stop stops.
LiveSpecShutdown == SpecShutdown /\ WF_vars(RunSteps) /\ WF_vars(PoolDrain)

NextRouter == Dispatch_

\* The router: one request dispatched on one table.
SpecRouter == InitDispatch /\ [][NextRouter]_vars

NextChain ==
    \/ ChainDispatch
    \/ MiddlewareBefore
    \/ HandlerInvoke
    \/ MiddlewareAfter

\* One dispatch through the middleware chain of the selected route.
SpecChain == InitMiddleware /\ [][NextChain]_vars

NextGenerated ==
    \/ FastRouterCall
    \/ FallbackDispatch

\* One request given to fast_router and to the router it falls back to.
SpecGenerated == InitGenerated /\ [][NextGenerated]_vars

\* The router on routes with parameters.
SpecParams == InitParams /\ [][NextRouter]_vars

\* The router on routes with and without a trailing slash.
SpecSlash == InitSlash /\ [][NextRouter]_vars

\* The router given HEAD requests.
SpecHead == InitHead /\ [][NextRouter]_vars

\* The router with handlers that may fail.
SpecProblem == InitProblem /\ [][NextRouter]_vars

\* The priority scores of two patterns.
SpecPriority == InitPriority /\ [][Score]_vars

NextKatanaGen ==
    \/ GenerateRouterTable
    \/ GenerateRouterBindings

\* katana_gen writes the route table and the router bindings of a document.
SpecKatanaGen == InitKatanaGen /\ [][NextKatanaGen]_vars

\* accept_handler between its invocation and its return.
AcceptHandler ==
    AcceptStep \/ EmfileCloseReserve \/ EmfileAccept \/ EmfileCloseConn \/ EmfileReopen

\* The reactor thread runs and delivers the listener's pending events.
\* Nothing obliges clients to connect, nor the threads to close descriptors.
LiveSpecAccept ==
    Init /\ [][NextAccept]_vars /\ WF_vars(AcceptInvoke) /\ WF_vars(AcceptHandler)

\* The reactor thread runs, the reactor delivers pending events, and the
\* peer keeps taking the bytes it was sent.
LiveSpec ==
    InitLive /\ [][Next]_vars /\ WF_vars(Handler) /\ WF_vars(Invoke) /\ WF_vars(PeerDrain)

\* ------------------------------------------------------------------------
\* Properties of the connection driver
\* ------------------------------------------------------------------------

Range(s) == {s[i] : i \in DOMAIN s}
Last(s) == s[Len(s)]

\* The last write emptied the write buffer: response cur.id is wholly written.
ResponseWritten ==
    /\ cur.id # 0
    /\ write_buffer = <<>>
    /\ parser_state # "error"
    /\ last_io = <<"write", "ok">>

\* C1: request N+1 is never dispatched, and nothing is serialized, while a
\* byte of response N is in the write buffer: the write buffer grows only
\* from empty, so it holds bytes of at most one response.
C1_DispatchOnlyWithEmptyWriteBuffer ==
    /\ [](\A i, j \in DOMAIN write_buffer : write_buffer[i] = write_buffer[j])
    /\ [][Len(write_buffer') > Len(write_buffer) => write_buffer = <<>>]_vars

\* Request 2 is dispatched after response 1 was suspended and flushed.
C1_Witness == cur.id = 2 /\ done_path = "flush" /\ pc = "write" /\ write_buffer # <<>>

\* C2: every request the parser completed has exactly one response, in the
\* stream or in the write buffer; a released connection holds unsent bytes
\* of a response only after a failed read or write or an end of file; and
\* with a peer that keeps reading, a pending response is wholly written (or
\* the connection released).
C2_EveryRequestAnswered ==
    /\ [](LET out == SelectSeq(Received(wire, write_buffer),
                               LAMBDA t : t # BadRequestStatus)
          IN  out = [i \in 1..cur.id |-> i])
    /\ [](~registered /\ write_buffer # <<>> /\ write_buffer[1] # BadRequestStatus
            => last_io[2] \in {"error", "eof"})
    /\ ((registered /\ write_buffer # <<>>) ~> (write_buffer = <<>> \/ ~registered))

\* A response that was suspended has been wholly written by the flush block.
C2_Witness == done_path = "flush" /\ write_buffer = <<>> /\ wire = <<1>> /\ registered

\* C3: after a parse error the 400 response has been written to the socket
\* when the registration is released.
C3_BadRequestIsWritten ==
    (parser_state = "error" /\ ~registered) => BadRequestStatus \in Range(wire)

C5_VersionDefault ==
    (ResponseWritten /\ cur.conn = "none") =>
        /\ cur.ver = "1.1" => registered
        /\ cur.ver = "1.0" => ~registered

\* C6: on a kept-alive connection the parser that completed a request is
\* reset before it parses again, and the arena is reset with it, whether
\* the response was completed inline or by the flush block.
C6_ResetBetweenRequests ==
    /\ pc \in {"parked", "loop", "parse", "read2"} /\ write_buffer = <<>>
         => parser_state # "complete"
    /\ pc = "parse" => parser_state \in {"fresh", "partial"}
    /\ parser_state = "fresh" => ~arena_dirty

\* The bytes after a response that the flush block completed are about to be parsed.
C6_Witness ==
    pc = "parse" /\ done_path = "flush" /\ cur.id = 1 /\ parser_state = "fresh"

\* C7: bytes left in the read buffer when a keep-alive response completes
\* are parsed at once, without a return to the reactor and without a read,
\* on both completion paths; the responses leave in request order, and say
\* keep-alive when neither the request nor the handler asked otherwise.
C7_PipelinedRequests ==
    /\ [][(write_buffer # <<>> /\ write_buffer' = <<>> /\ registered' /\ read_buffer # <<>>)
            => pc' = "loop"]_vars
    /\ [][(pc = "loop" /\ read_buffer # <<>> /\ pc' # pc)
            => pc' = "parse" /\ read_buffer' = read_buffer /\ ev' = ev]_vars
    /\ [](\A i \in DOMAIN wire : wire[i] # BadRequestStatus => wire[i] = i)
    /\ [](cur.id # 0 /\ cur.conn = "none" /\ cur.hconn = "none" => cur.rconn = "keep-alive")

\* Request 2 waits in the read buffer when the flush block completes response 1.
C7_Witness ==
    /\ pc = "loop" /\ done_path = "flush" /\ wire = <<1>> /\ write_buffer = <<>>
    /\ Len(read_buffer) = 2 /\ registered

\* C12: a read that reports the peer's close, at the top of the loop or
\* after an incomplete parse, releases the registration: the callback has
\* returned, and the connection is not registered any more.
C12_PeerCloseReleases ==
    last_io = <<"read", "eof">> => ~registered /\ pc = "released"

\* The peer closed in the middle of a request: the second read site saw it.
C12_Witness ==
    /\ last_io = <<"read", "eof">> /\ parser_state = "partial"
    /\ read_buffer # <<>> /\ ~registered

\* C13: when the callback has returned and left the connection registered,
\* its last system call was a read or a write that would have blocked
\* (EAGAIN/EWOULDBLOCK, which the socket may also report as no bytes moved).
C13_SuspendsOnlyOnWouldBlock ==
    (pc = "parked" /\ registered /\ last_io[1] # "none")
        => last_io[2] \in {"eagain", "empty", "zero"}

\* C14: a connection parked on I/O does not stay parked for ever without a
\* readiness event: the idle timer fires and its registration is released.
C14_IdleConnectionIsClosed ==
    (pc = "parked" /\ registered /\ ~ev) ~> (ev \/ pc # "parked" \/ ~registered)

\* ------------------------------------------------------------------------
\* Properties of the accept handler
\* ------------------------------------------------------------------------

IsPrefix(s, t) == Len(s) <= Len(t) /\ SubSeq(t, 1, Len(s)) = s
InRecovery == apc \in {"close_reserve", "emfile_accept", "emfile_close", "reopen"}

C9_ReserveReestablished ==
    (cycle.done /\ cycle.pending) =>
        fd_ >= 0 /\ "close_conn" \in Range(cycle.steps)

\* C10: an accept4 failure other than EAGAIN/EWOULDBLOCK leaves the listener
\* registered and ends the batch: the loop accepts again only after a
\* success, and no step of the handler but a successful accept changes the
\* connections that are registered.
C10_TransientAcceptErrors ==
    /\ []listener_registered
    /\ [](apc = "accept" => last_accept \in {"none", "ok"})
    /\ [][(apc # "idle" /\ ~(apc = "accept" /\ last_accept' = "ok"))
            => conns' = conns /\ listener_registered']_vars

\* The batch accepted a connection, then accept4 failed with EMFILE: the
\* handler has returned, the connection and the listener are registered.
C10_Witness ==
    /\ apc = "idle" /\ last_accept = "emfile" /\ batch >= 1 /\ conns >= 1
    /\ listener_registered

\* C11: a connection that waits in the backlog while the handler is idle and
\* descriptors are available is eventually taken from the backlog (accepted
\* by the loop, or accepted and closed by handle_emfile), even when no new
\* connection arrives to notify the edge-triggered listener.
C11_PendingConnectionsTaken ==
    (apc = "idle" /\ backlog > 0 /\ OpenFds < FdLimit /\ ErrorTotal < MaxAcceptErrors)
        ~> \/ apc = "accept" /\ last_accept = "ok"
           \/ conn_fd >= 0
           \/ backlog = 0
           \/ OpenFds >= FdLimit
           \/ ErrorTotal >= MaxAcceptErrors

\* The counter the errno of a failed accept4 selects.
CounterOf(err) == IF err \in accept_errors \ {"other"} THEN err ELSE "other"

\* C34: a turn of the accept loop whose accept4 failed with an errno other
\* than EAGAIN/EWOULDBLOCK increments one accept-error counter by one, the
\* counter of its errno, and `other` for an errno that has no counter; a
\* turn whose accept4 succeeded or reported EAGAIN/EWOULDBLOCK, and every
\* step outside the loop, leaves the five error counters as they are.
C34_AcceptErrorCounted ==
    [][IF apc = "accept" /\ last_accept' \notin {"none", "ok", "eagain"}
       THEN accept_counters' = [accept_counters EXCEPT ![CounterOf(last_accept')] = @ + 1]
       ELSE \A e \in accept_errors : accept_counters'[e] = accept_counters[e]]_vars

\* A batch accepted a connection, then accept4 failed with ECONNABORTED; an
\* earlier invocation had failed with ENFILE.
C34_Witness ==
    /\ apc = "idle" /\ last_accept = "econnaborted" /\ batch >= 1
    /\ accept_counters.other = 1 /\ accept_counters.enfile = 1

\* C35: `recovered` is incremented, and handle_emfile returns true (the
\* cycle is done), exactly by the return of a handle_emfile that accepted
\* one pending connection and closed it; a handle_emfile that accepted
\* nothing does not count a recovery.
C35_RecoveredCountsClosedConnections ==
    [][/\ accept_counters'.recovered \in {accept_counters.recovered, accept_counters.recovered + 1}
       /\ (accept_counters'.recovered = accept_counters.recovered + 1)
            <=> (cycle'.done /\ ~cycle.done)
       /\ (cycle'.done /\ ~cycle.done) => "close_conn" \in Range(cycle'.steps)]_vars

\* C35, the part that holds: `recovered` is incremented by one exactly when a
\* handle_emfile that found the reserve held returns, and a handle_emfile
\* that finds no reserve held counts nothing.
C35_RecoveredCountsCycles ==
    [][/\ accept_counters'.recovered \in {accept_counters.recovered, accept_counters.recovered + 1}
       /\ (accept_counters'.recovered = accept_counters.recovered + 1)
            <=> (cycle'.done /\ ~cycle.done)]_vars

\* ------------------------------------------------------------------------
\* Properties of the connection states
\* ------------------------------------------------------------------------

\* C15: a connection state exists exactly while its registration is held:
\* the callback owns no reference to it, nothing keeps it after state.watch
\* is released, and it is not destroyed while the callback is registered.
C15_StateLivesWithRegistration ==
    \A c \in ConnIds :
        origin[c] # "none" =>
            /\ "callback" \notin owners[c]
            /\ alive[c] <=> watch[c]

\* ------------------------------------------------------------------------
\* Properties of server::run
\* ------------------------------------------------------------------------

\* C16: once a signal was delivered after setup_signal_handlers, the shutdown
\* callback has run: on_stop first when it is set, then pool.graceful_stop;
\* and pool.wait() returns and run() returns 0.
C16_SignalStopsServer ==
    /\ [](signals # <<>> =>
            /\ "graceful_stop" \in Range(stop_log)
            /\ config.on_stop => stop_log[1] = "on_stop")
    /\ (signals # <<>> ~> (rpc = "returned" /\ ret = 0))

\* C28: whenever handle_connection has returned and the connection is still
\* registered, the interest mask is writable if and only if the write buffer
\* is non-empty, and readable otherwise; after a write that returned EAGAIN
\* or 0 with bytes left it is writable, after a read that returned EAGAIN
\* readable.
C28_InterestFollowsWriteBuffer ==
    (pc = "parked" /\ registered) =>
        /\ interest = "writable" <=> write_buffer # <<>>
        /\ interest = "readable" <=> write_buffer = <<>>
        /\ (last_io[1] = "write" /\ last_io[2] \in {"eagain", "zero"}) => interest = "writable"
        /\ (last_io = <<"read", "eagain">>) => interest = "readable"

\* The callback returned after a write that took nothing, bytes left.
C28_Witness ==
    /\ pc = "parked" /\ registered /\ last_io = <<"write", "zero">>
    /\ write_buffer # <<>> /\ interest = "writable"

\* C29: the write that empties the write buffer has one effect, whether it
\* is made by the flush block of a later callback or by the callback that
\* dispatched the request: the request's close decision is the one taken,
\* close_header is counted once and the registration released, or else the
\* arena and the parser are reset and the callback parks for readability
\* with an empty read buffer and goes on to parse with a non-empty one.
C29_FlushCompletesLikeInline ==
    [][(write_buffer # <<>> /\ write_buffer' = <<>>) =>
         /\ done_path' \in {"flush", "inline"}
         /\ close_requested = cur.close
         /\ IF cur.close
            THEN /\ close_counters' = [close_counters EXCEPT !["close_header"] = @ + 1]
                 /\ ~registered' /\ pc' = "released"
            ELSE /\ close_counters' = close_counters
                 /\ registered'
                 /\ ~close_requested' /\ ~arena_dirty' /\ parser_state' = "fresh"
                 /\ read_buffer' = read_buffer
                 /\ IF read_buffer = <<>>
                    THEN pc' = "parked" /\ interest' = "readable"
                    ELSE pc' = "loop"]_vars

\* The flush block completed the response to a `Connection: close` request.
C29_Witness ==
    /\ done_path = "flush" /\ cur.close /\ write_buffer = <<>> /\ pc = "released"
    /\ close_counters["close_header"] = 1 /\ Last(wire) = cur.id

InCallback == pc \in {"flush", "loop", "parse", "read2", "write"}

\* C30: handle_connection is invoked only while the connection's watch
\* exists; the watch exists wherever the callback is before its return, so
\* at every state.watch->modify, checked or not; and after
\* state.watch.reset() the invocation is over and touches the connection
\* state no more.
C30_WatchOutlivesCallback ==
    /\ [][(pc = "parked" /\ pc' # "parked") => registered]_vars
    /\ [](InCallback => registered)
    /\ [][(InCallback /\ pc' = "parked") => registered']_vars
    /\ [][(registered /\ ~registered') => pc' = "released"]_vars
    /\ [][~registered => UNCHANGED connVars]_vars

\* A write failed with bytes left: the watch is reset and the callback over.
C30_Witness ==
    /\ pc = "released" /\ ~registered /\ last_io = <<"write", "error">>
    /\ write_buffer # <<>>

\* C31: a response that has been wholly written said `Connection: close`
\* if and only if the server released the connection when the write
\* completed, whether the driver or the handler set the header.
C31_ConnectionHeaderAgrees ==
    ResponseWritten => (cur.rconn = "close" <=> ~registered)

\* The header value in lower case (ASCII), for the values the clients send.
AsciiLower(value) ==
    CASE value \in {"close", "Close", "CLOSE"} -> "close"
      [] value \in {"keep-alive", "Keep-Alive"} -> "keep-alive"
      [] OTHER -> value

\* C32: from the dispatch of a request to the end of its response,
\* close_requested is true exactly when the request's Connection header is
\* `close` in any letter case.
C32_CloseIgnoringCase ==
    (pc \in {"write", "flush"} /\ cur.id # 0 /\ write_buffer # <<>> /\ parser_state # "error")
        => (close_requested <=> AsciiLower(cur.conn) = "close")

\* Why the step that releases the registration released it.
ReleaseCause ==
    IF parser_state' = "error" /\ parser_state # "error" THEN "parse_error"
    ELSE IF last_io' = <<"read", "eof">> THEN "read_eof"
    ELSE IF last_io' = <<"read", "error">> THEN "read_error"
    ELSE IF last_io' = <<"write", "error">> THEN "write_error"
    ELSE "close_header"

\* C33: every step of handle_connection that releases the registration
\* increments exactly one close-reason counter, by one, and it is the
\* counter of the cause of the release.
C33_ReleaseCountsItsCause ==
    [][(registered /\ ~registered') =>
          close_counters' = [close_counters EXCEPT ![ReleaseCause] = @ + 1]]_vars

\* C33, the part that holds: no release counts more than one reason, and
\* a step that keeps the registration counts nothing.
C33_AtMostOneCounter ==
    [][/\ (registered /\ ~registered') =>
            \/ close_counters' = close_counters
            \/ \E r \in close_reasons :
                 close_counters' = [close_counters EXCEPT ![r] = @ + 1]
       /\ registered' => close_counters' = close_counters]_vars

\* ------------------------------------------------------------------------
\* Properties of the router
\* ------------------------------------------------------------------------

Dispatched == route_resp # NoResponse
\* The path of the request, cut before its first '?', in segments.
RequestSegments ==
    LET uri == route_req.uri
        cut == IF \E i \in DOMAIN uri : uri[i] = "?"
               THEN SubSeq(uri, 1, (CHOOSE i \in DOMAIN uri :
                                      uri[i] = "?" /\ \A j \in 1..(i - 1) : uri[j] # "?") - 1)
               ELSE uri
    IN  split_path(cut)
\* The routes whose pattern matches the request's path, and those among them
\* that have the request's method.
PathMatches == {i \in DOMAIN routes : match_segments(routes[i].pattern, RequestSegments)}
RouteMatches == {i \in PathMatches : routes[i].method = route_req.http_method}
IsStatic(pattern) == \A k \in DOMAIN pattern : pattern[k].kind = "literal"

AlphabeticalMethods == <<"DELETE", "GET", "HEAD", "OPTIONS", "PATCH", "POST", "PUT">>
PathMethods == {routes[i].method : i \in PathMatches}
MethodNotAllowedCase == Dispatched /\ PathMatches # {} /\ RouteMatches = {}

C19_NotFound ==
    /\ (Dispatched /\ PathMatches = {}) =>
          /\ route_resp.code = "not_found" /\ route_resp.status = 404
          /\ route_resp.body = "problem+json" /\ route_resp.allow = NoAllow
    /\ (Dispatched /\ route_resp.status = 405) => PathMatches # {}

\* A table with routes, none of which matches the path, and a method none has.
C19_Witness ==
    /\ Dispatched /\ route_resp.status = 404 /\ Len(routes) = 2
    /\ route_req.http_method = "PUT" /\ RequestSegments = << <<"a", "a">> >>

\* C20: the response to a URI with a query is the response to the URI cut
\* before its first '?': same status, same route, same parameters.
C20_QueryIgnored ==
    Dispatched =>
        LET uri == route_req.uri
            q == {i \in DOMAIN uri : uri[i] = "?"}
            cut == IF q = {} THEN uri ELSE SubSeq(uri, 1, MinOf(q) - 1)
        IN  route_resp = dispatch_or_problem(routes, [route_req EXCEPT !.uri = cut])

\* /a?a on a table with /{id}: the route is selected and id is bound to a.
C20_Witness ==
    /\ Dispatched /\ route_req.uri = <<"/", "a", "?", "a">>
    /\ route_resp.code = "ok" /\ route_resp.params = << <<<<"id">>, <<"a">>>> >>

\* C21: after a successful dispatch the params bag has one entry per
\* parameter segment of the selected pattern, in pattern order, named after
\* the segment and holding the bytes of the request's segment at that
\* position; a route of literal segments only leaves the bag empty.
C21_ParamsFromPath ==
    (Dispatched /\ route_resp.code = "ok") =>
        LET pattern == routes[route_resp.route].pattern
            at == {i \in DOMAIN pattern : pattern[i].kind = "param"}
            rank(i) == Cardinality({j \in at : j < i}) + 1
            bag == route_resp.params
        IN  /\ Len(bag) = Cardinality(at)
            /\ \A i \in at : bag[rank(i)] = <<pattern[i].text, RequestSegments[i]>>
            /\ IsStatic(pattern) => bag = <<>>

\* /b/a on /{id}/{to} binds id to b and to to a.
C21_Witness ==
    /\ Dispatched /\ route_resp.code = "ok"
    /\ routes[route_resp.route].pattern = <<Param(<<"id">>), Param(<<"to">>)>>
    /\ RequestSegments = << <<"b">>, <<"a">> >>
    /\ route_resp.params = << <<<<"id">>, <<"b">>>>, <<<<"to">>, <<"a">>>> >>

RequestPath ==
    LET uri == route_req.uri
        q == {i \in DOMAIN uri : uri[i] = "?"}
    IN  IF q = {} THEN uri ELSE SubSeq(uri, 1, MinOf(q) - 1)
EndsWithSlash(path) == Len(path) > 1 /\ path[Len(path)] = "/"
HasTrailingSlash(pattern) == pattern # <<>> /\ pattern[Len(pattern)] = Literal(<<>>)
\* The pattern is the request's path, the slash at its end left aside.
SameButSlash(pattern, path) ==
    LET bare == IF HasTrailingSlash(pattern) THEN SubSeq(pattern, 1, Len(pattern) - 1)
                ELSE pattern
        segs == SplitOn(SubSeq(path, 2, Len(path) - 1), <<>>)
    IN  /\ EndsWithSlash(path) /\ Len(bare) = Len(segs)
        /\ \A k \in DOMAIN bare :
             /\ segs[k] # <<>>
             /\ bare[k].kind = "literal" => bare[k].text = segs[k]

\* C24: a request path that ends in a slash is never given to a pattern
\* written without the trailing slash, and is given to a pattern written
\* with it that it otherwise matches.
C24_TrailingSlash ==
    Dispatched =>
        /\ (EndsWithSlash(RequestPath) /\ route_resp.code = "ok")
                => HasTrailingSlash(routes[route_resp.route].pattern)
        /\ (\E i \in DOMAIN routes :
                /\ HasTrailingSlash(routes[i].pattern)
                /\ SameButSlash(routes[i].pattern, RequestPath))
                => /\ route_resp.code = "ok"
                   /\ SameButSlash(routes[route_resp.route].pattern, RequestPath)

\* /a/ on the table [/a, /a/] is given to the second route.
C24_Witness ==
    /\ Dispatched /\ route_req.uri = <<"/", "a", "/">>
    /\ Len(routes) = 2
    /\ routes[1].pattern = <<Literal(<<"a">>)>>
    /\ HasTrailingSlash(routes[2].pattern)
    /\ route_resp.route = 2

\* The GET routes whose pattern matches the request's path.
GetRoutes == {i \in PathMatches : routes[i].method = "GET"}
AllowNames == {route_resp.allow[i] : i \in {j \in DOMAIN route_resp.allow : j % 2 = 1}}
HeadServedByGet ==
    (Dispatched /\ GetRoutes # {} /\ route_req.http_method = "HEAD") =>
        /\ route_resp.code = "ok" /\ route_resp.status # 405
        /\ route_resp.route \in GetRoutes

\* C25 (as claimed): on a path with a GET route a HEAD request is given to
\* the GET handler and never answered 405, and HEAD is among the allowed
\* methods reported for the path.
C25_HeadAmongAllowed ==
    /\ HeadServedByGet
    /\ (Dispatched /\ GetRoutes # {} /\ route_resp.status = 405) => "HEAD" \in AllowNames

\* C25 (amended): on a path with a GET route a HEAD request is given to the
\* GET handler and never answered 405; the allowed methods reported for the
\* path are those of the routes defined on it, HEAD not added.
C25_HeadServedNotListed ==
    /\ HeadServedByGet
    /\ (Dispatched /\ GetRoutes # {} /\ route_resp.status = 405) =>
          /\ AllowNames = PathMethods
          /\ "HEAD" \notin AllowNames

\* HEAD /a on a table whose GET route is /a, and PUT on such a path.
C25_Witness ==
    /\ Dispatched /\ route_req.http_method = "HEAD" /\ GetRoutes # {}
    /\ route_resp.code = "ok" /\ routes[route_resp.route].method = "GET"
    /\ route_req.uri = <<"/", "a">>

\* C26: dispatch_or_problem returns a response for every request and every
\* outcome of the dispatch: the handler's response unchanged on success, 404
\* for not_found, 405 for method_not_allowed, and a response as well when
\* the handler returned an error code.
C26_AlwaysAResponse ==
    Dispatched =>
        /\ route_resp.status \in {200, 404, 405, 500} /\ route_resp.body # ""
        /\ IF RouteMatches # {}
           THEN IF handler_result = "response"
                THEN route_resp.status = 200 /\ route_resp.body = "handler"
                ELSE route_resp.status >= 400 /\ route_resp.body = "problem+json"
           ELSE IF PathMatches # {}
                THEN route_resp.status = 405
                ELSE route_resp.status = 404

\* A handler that returns an error code is answered with a problem response.
C26_Witness ==
    /\ Dispatched /\ RouteMatches # {} /\ handler_result = "error"
    /\ route_resp.status = 500

\* C36: of two patterns of at most MAX_ROUTE_SEGMENTS segments the one with
\* more literal segments has the strictly higher score, and the term
\* MAX_ROUTE_SEGMENTS - param_count of neither is below zero.
C36_MoreLiteralsScoreHigher ==
    scores # <<>> =>
        /\ \A i \in 1..2 : MAX_ROUTE_SEGMENTS - Count2(scored[i], "param") >= 0
        /\ \A i \in 1..2 : scores[i] >= 0
        /\ \A i, j \in 1..2 :
             Count2(scored[i], "literal") > Count2(scored[j], "literal")
                => scores[i] > scores[j]

\* Two literals and fourteen parameters against one literal alone: 34 and 32.
C36_Witness ==
    /\ scores = <<34, 32>>
    /\ Count2(scored[1], "literal") = 2 /\ Count2(scored[1], "param") = 14
    /\ Count2(scored[2], "literal") = 1 /\ Count2(scored[2], "param") = 0

\* ------------------------------------------------------------------------
\* Properties of the middleware chain
\* ------------------------------------------------------------------------

AllCallNext == \A i \in DOMAIN chain : chain[i] = "next"
\* The phases of a trace and the middleware of each, without what they saw.
Order(t) == [n \in DOMAIN t |-> <<t[n].phase, t[n].at>>]
Befores(n) == [i \in 1..n |-> <<"before", i>>]
Afters(n) == [j \in 1..n |-> <<"after", n + 1 - j>>]
HandlerRuns == Cardinality({n \in DOMAIN trace : trace[n].phase = "handler"})

\* C22: with a chain m1..mk whose middleware all call next, one dispatch
\* runs the before-phases m1..mk, then the handler exactly once, then the
\* after-phases mk..m1, and returns the handler's result.
C22_ChainOrder ==
    AllCallNext =>
        /\ HandlerRuns <= 1
        /\ chain_pc = "done" =>
              /\ Order(trace) = Befores(Len(chain)) \o <<<<"handler", Len(chain) + 1>>>>
                                    \o Afters(Len(chain))
              /\ chain_result = [kind |-> handler_result, by |-> Len(chain) + 1]

\* The chain [m1, m2] around H: m1-before, m2-before, H, m2-after, m1-after.
C22_Witness ==
    /\ chain_pc = "done" /\ chain = <<"next", "next">> /\ Len(trace) = 5
    /\ chain_result = [kind |-> "response", by |-> 3]

\* C23: when middleware mi returns without calling next, no later
\* middleware and not the handler is invoked, and dispatch returns mi's value
\* after the after-phases of m(i-1)..m1; an error returned by the handler or
\* by an inner middleware is seen by the after-phase of every middleware
\* around it.
C23_ShortCircuit ==
    /\ ~AllCallNext =>
          LET i == MinOf({j \in DOMAIN chain : chain[j] # "next"})
          IN  /\ HandlerRuns = 0
              /\ \A n \in DOMAIN trace : trace[n].at <= i
              /\ chain_pc = "done" =>
                    /\ Order(trace) = Befores(i) \o Afters(i - 1)
                    /\ chain_result = OwnResult(chain[i], i)
    /\ (chain_pc = "done" /\ chain_result.kind = "error") =>
          \A j \in 1..(chain_result.by - 1) :
              \E n \in DOMAIN trace : trace[n] = [phase |-> "after", at |-> j, saw |-> "error"]

\* m2 of [m1, m2, m3] answers itself: m1-before, m2-before, m1-after.
C23_Witness ==
    /\ chain_pc = "done" /\ chain = <<"next", "respond", "next">>
    /\ Len(trace) = 3 /\ chain_result = [kind |-> "response", by |-> 2]

\* ------------------------------------------------------------------------
\* Properties of the generated routers
\* ------------------------------------------------------------------------

BothReturned == fast_out # NoCall /\ fallback_out # NoCall
StaticHit ==
    \E i \in static_routes(doc) :
        /\ strip_query(gen_req.uri) = PathText(doc[i].path)
        /\ gen_req.http_method = doc[i].method

C27_FallsThrough ==
    BothReturned =>
        /\ ~StaticHit => fast_out = fallback_out
        /\ (StaticHit /\ fallback_out.code = "ok") => fast_out.op = fallback_out.op


\* C37: every route_N_consumes and route_N_produces the bindings reference
\* for an operation is the array the table defined for that operation,
\* under the same index N.
C37_RouteIndexAgrees ==
    (table_out # <<>> /\ bindings_out # <<>>) => bindings_out[1] \subseteq table_out[1]

\* C37, the part that holds: in a document whose operations all have an
\* operation_id the bindings reference exactly the arrays the table defined.
C37_RouteIndexAgreesWithIds ==
    (table_out # <<>> /\ bindings_out # <<>>
        /\ \A i \in DOMAIN doc : doc[i].operation_id # "")
        => bindings_out[1] = table_out[1]


\* ------------------------------------------------------------------------
\* Properties of the start of server::run
\* ------------------------------------------------------------------------

\* C38: run() returns 1 only from the step that fails to start the
\* listeners, as its first step: the signal handlers are not installed, no
\* shutdown callback is set, on_start is not invoked, the pool is not
\* started, and nothing happens afterwards.  Once the listeners are started
\* run() returns only 0, and only when pool.wait() returns on a pool that
\* was started and has stopped.
C38_RunReturns ==
    /\ [][(ret' # ret /\ ret' = 1) => (rpc = "listen" /\ rpc' = "returned")]_vars
    /\ [](ret = 1 => /\ rpc = "returned" /\ pool = "created" /\ ~shutdown_callback
                     /\ signals = <<>> /\ stop_log = <<>> /\ ~listener.watch)
    /\ [][ret = 1 => UNCHANGED shutVars]_vars
    /\ [][ret' # ret => ret = -1 /\ ret' \in {0, 1}]_vars
    /\ [][(ret' # ret /\ ret' = 0) => (rpc = "waiting" /\ pool = "stopped")]_vars
    /\ [][rpc' = "waiting" /\ rpc # "waiting" => pool' \in {"running", "stopped"}]_vars

\* The single listener could not be created: run() has returned 1.
C38_Witness ==
    /\ ret = 1 /\ rpc = "returned" /\ ~config.reuseport /\ config.on_start
    /\ pool = "created"

\* C39: in single-listener mode, while the listen callback is registered
\* and the pool has not stopped, the tcp_listener the callback refers to
\* exists and its socket is open.
C39_ListenerOutlivesCallback ==
    (~config.reuseport /\ listener.watch /\ pool # "stopped")
        => listener.object = "alive" /\ listener.socket = "open"

\* C39, in reuseport mode: the listeners of the pool are open while their
\* callbacks are registered.
C39_PoolListenersStayOpen ==
    (config.reuseport /\ listener.watch) => listener.socket = "open"

====
